---- MODULE Spec2Model ----
(***************************************************************************)
(* A model of cirrus.r53.Zone (src/cirrus/r53.py): the reconciliation of a *)
(* bind-style zone file against a Route 53 hosted zone.                    *)
(*                                                                         *)
(* Text is modelled as a tuple of one-character strings, so that Python's  *)
(* slices, strip, split and comparisons are computed character by          *)
(* character.  A dict is a record [keys, val]: val is the mapping and keys *)
(* the insertion order, from which the iteration order is derived.         *)
(***************************************************************************)
EXTENDS Integers, Sequences, FiniteSets, TLC

VARIABLES
    id,          \* Zone.id: None or the hosted-zone id (r53.py:26)
    zone_file,   \* the zone file named for this zone in the manifest (parsed)
    hashOrder,   \* the iteration order of this interpreter's dicts
    zones,       \* provider: hosted zones in listing order, [Id, Name, rrsets]
    nextId,      \* provider: number of hosted zones created so far
    calls,       \* provider calls made by the last operation, in order
    log,         \* log records emitted by the last operation, in order
    last         \* the last operation: its arguments, intermediate and final results

vars == <<id, zone_file, hashOrder, zones, nextId, calls, log, last>>

----------------------------------------------------------------------------
(* Bounds of the model.                                                    *)

\* submissions of one operation that the provider may be made to refuse: 1..MaxFailAt
MaxFailAt == 3
\* hosted zones the provider creates in one behaviour
MaxZones == 2

----------------------------------------------------------------------------
(* Python values.                                                          *)

None == <<"None">>

Min(a, b) == IF a < b THEN a ELSE b

\* s[a:b] for 0 <= a
PySlice(s, a, b) ==
    IF a >= Min(b, Len(s)) THEN <<>> ELSE SubSeq(s, a + 1, Min(b, Len(s)))

\* s[a:]
PyFrom(s, a) == IF a >= Len(s) THEN <<>> ELSE SubSeq(s, a + 1, Len(s))

\* s[:-1]
PyDropLast(s) == IF Len(s) = 0 THEN <<>> ELSE SubSeq(s, 1, Len(s) - 1)

Reverse(s) == [i \in 1..Len(s) |-> s[Len(s) + 1 - i]]

\* the code points of the characters used
Ord(c) ==
    CASE c = " " -> 32 [] c = "\"" -> 34 [] c = "." -> 46
      [] c = "0" -> 48 [] c = "1" -> 49 [] c = "2" -> 50 [] c = "3" -> 51
      [] c = "4" -> 52 [] c = "5" -> 53 [] c = "6" -> 54 [] c = "7" -> 55
      [] c = "8" -> 56 [] c = "9" -> 57
      [] c = "A" -> 65 [] c = "Z" -> 90 [] c = "_" -> 95
      [] c = "a" -> 97 [] c = "e" -> 101 [] c = "h" -> 104 [] c = "i" -> 105
      [] c = "l" -> 108 [] c = "n" -> 110 [] c = "o" -> 111 [] c = "s" -> 115
      [] c = "t" -> 116 [] c = "w" -> 119 [] c = "x" -> 120

\* s < t for two str
RECURSIVE StrLess(_, _)
StrLess(s, t) ==
    IF Len(t) = 0 THEN FALSE
    ELSE IF Len(s) = 0 THEN TRUE
    ELSE IF s[1] = t[1] THEN StrLess(Tail(s), Tail(t))
    ELSE Ord(s[1]) < Ord(t[1])

\* the list left as it is
PySort_Unsorted(values) == values

\* list.sort() of a list of str
PySort(values) == SortSeq(values, StrLess)

Digit(n) == <<"0", "1", "2", "3", "4", "5", "6", "7", "8", "9">>[n + 1]

\* str(n) of an int n >= 0
RECURSIVE PyStr(_)
PyStr(n) == IF n < 10 THEN <<Digit(n)>> ELSE Append(PyStr(n \div 10), Digit(n % 10))

\* int(s) of a decimal str
RECURSIVE PyInt(_)
PyInt(s) ==
    IF Len(s) = 0 THEN 0
    ELSE 10 * PyInt(PyDropLast(s)) + (Ord(s[Len(s)]) - 48)

\* s.strip('"')
RECURSIVE StripQuotes(_)
StripQuotes(s) ==
    IF Len(s) = 0 THEN s
    ELSE IF s[1] = "\"" THEN StripQuotes(Tail(s))
    ELSE IF s[Len(s)] = "\"" THEN StripQuotes(PyDropLast(s))
    ELSE s

\* s.split(): the words of s between runs of spaces
RECURSIVE SplitFrom(_, _, _)
SplitFrom(s, word, words) ==
    IF Len(s) = 0
    THEN IF Len(word) = 0 THEN words ELSE Append(words, word)
    ELSE IF s[1] = " "
    THEN SplitFrom(Tail(s), <<>>, IF Len(word) = 0 THEN words ELSE Append(words, word))
    ELSE SplitFrom(Tail(s), Append(word, s[1]), words)

PySplit(s) == SplitFrom(s, <<>>, <<>>)

\* a loop over s[lo..hi] in order, acc being what the loop body Op updates (the
\* test of DOMAIN left decides nothing: it makes TLC evaluate the first half of the
\* loop before the second)
RECURSIVE ForRange(_, _, _, _, _)
ForRange(Op(_, _), acc, s, lo, hi) ==
    IF lo > hi THEN acc
    ELSE IF lo = hi THEN Op(acc, s[lo])
    ELSE LET mid == (lo + hi) \div 2
             left == ForRange(Op, acc, s, lo, mid)
             both == ForRange(Op, left, s, mid + 1, hi)
         IN IF DOMAIN left = {} THEN both ELSE both

\* for x in s: acc = Op(acc, x)
ForEach(Op(_, _), acc, s) == ForRange(Op, acc, s, 1, Len(s))

\* v = e, ahead of the statements Op(v) that read v
Bind(e, Op(_)) == Op(e)

\* a dict: val is the mapping, keys the order of insertion
EmptyDict == [keys |-> <<>>, val |-> <<>>]

HasKey(d, k) == k \in DOMAIN d.val

DictPut(d, k, v) ==
    IF HasKey(d, k)
    THEN [d EXCEPT !.val[k] = v]
    ELSE [keys |-> Append(d.keys, k), val |-> d.val @@ (k :> v)]

\* del d[k] left out
DictDel_Skip(d, k) == d

\* del d[k]
DictDel(d, k) ==
    [keys |-> SelectSeq(d.keys, LAMBDA x : x # k),
     val  |-> [x \in (DOMAIN d.val) \ {k} |-> d.val[x]]]

\* d.keys() and d.iterkeys(): some order that the dict's contents determine
DictKeys(d) == IF hashOrder = "insertion" THEN d.keys ELSE Reverse(d.keys)

----------------------------------------------------------------------------
(* Constant text of the program.                                           *)

ALIAS_WORD == <<"A", "l", "i", "a", "s", " ">>
ALIAS_NAME_PREFIX == <<"_", "a", "l", "i", "a", "s", ".">>
HOSTEDZONE_PREFIX == "/hostedzone/"

\* the zone name handed to Zone(conn, zone_name): no trailing dot, as exists() expects
zone_name == <<"e">>

----------------------------------------------------------------------------
(* The provider (boto's Route 53 connection, self.conn).                   *)
(* A hosted zone is [Id, Name, rrsets]; rrsets is kept in listing order,   *)
(* by name and then type.  An rrset is [name, type, ttl, resource_records, *)
(* alias_hosted_zone_id, alias_dns_name], an alias one having no           *)
(* resource_records.                                                       *)

\* the records one listing call returns at most
ListingPage == 100

\* rrecord.ttl of an alias rrset: the request that creates it carries no TTL
AliasListedTtl == 600

TypeOrd(t) ==
    CASE t = "A" -> 1 [] t = "CNAME" -> 2 [] t = "NS" -> 3 [] t = "SOA" -> 4 [] t = "TXT" -> 5

\* (name1, type1) is listed before (name2, type2)
ListedBefore(name1, type1, name2, type2) ==
    IF name1 = name2 THEN TypeOrd(type1) < TypeOrd(type2) ELSE StrLess(name1, name2)

PlainRrset(name, type, ttl, values) ==
    [name |-> name, type |-> type, ttl |-> ttl, resource_records |-> values,
     alias_hosted_zone_id |-> None, alias_dns_name |-> None]

AliasRrset(name, zone_id, dns_name) ==
    [name |-> name, type |-> "A", ttl |-> AliasListedTtl, resource_records |-> <<>>,
     alias_hosted_zone_id |-> zone_id, alias_dns_name |-> dns_name]

IsAliasRrset(r) == Len(r.resource_records) = 0 /\ r.alias_hosted_zone_id # None

\* zone['Id'].replace('/hostedzone/', '')
StripHostedZone(zid) == SelectSeq(zid, LAMBDA c : c # HOSTEDZONE_PREFIX)

\* the position in zs of the hosted zone with this id, 0 when there is none
ZoneIndex(zs, zid) ==
    LET found == {i \in 1..Len(zs) : StripHostedZone(zs[i].Id) = zid}
    IN IF found = {} THEN 0 ELSE CHOOSE i \in found : TRUE

\* the number of the rrsets among rs[lo..hi] that are listed before (name, type),
\* rs being in listing order
RECURSIVE ListedBeforeCount(_, _, _, _, _)
ListedBeforeCount(rs, name, type, lo, hi) ==
    IF lo > hi THEN lo - 1
    ELSE LET mid == (lo + hi) \div 2
         IN IF ListedBefore(rs[mid].name, rs[mid].type, name, type)
            THEN ListedBeforeCount(rs, name, type, mid + 1, hi)
            ELSE ListedBeforeCount(rs, name, type, lo, mid - 1)

\* conn.get_all_rrsets(id, type, name): up to ListingPage rrsets, starting with
\* the one of this name and type
GetAllRrsets(zs, zid, ltype, lname) ==
    Bind(ZoneIndex(zs, zid), LAMBDA z :
        IF z = 0 THEN [ok |-> FALSE, rrsets |-> <<>>]
        ELSE Bind(zs[z].rrsets, LAMBDA all :
             Bind(IF lname = None THEN 0
                  ELSE ListedBeforeCount(all, lname, ltype, 1, Len(all)), LAMBDA skipped :
                [ok |-> TRUE,
                 rrsets |-> PySlice(all, skipped, skipped + ListingPage)])))

\* the rrsets Route 53 generates for a new zone
GeneratedRrsets(apex) ==
    <<PlainRrset(apex, "NS", 172800, <<<<"n", ".">>>>),
      PlainRrset(apex, "SOA", 900, <<<<"n", ".", " ", "1">>>>)>>

\* conn.create_hosted_zone(name)
CreateHostedZone(zs, n, name) ==
    LET fqdn == IF Len(name) > 0 /\ name[Len(name)] = "." THEN name ELSE Append(name, ".")
    IN Append(zs, [Id |-> <<HOSTEDZONE_PREFIX, "Z", Digit(n + 1)>>,
                   Name |-> fqdn,
                   rrsets |-> GeneratedRrsets(fqdn)])

----------------------------------------------------------------------------
(* Change requests.  The XML document is modelled by its elements: the     *)
(* comment of the header and the Change entries in order.  A Change is     *)
(* [Action, Name, Type, TTL, ResourceRecords] or, for an alias,            *)
(* [Action, Name, Type, AliasTarget].                                      *)

IsAliasChange(c) == "AliasTarget" \in DOMAIN c

\* the rrset a CREATE change asks for
RrsetOfChange(c) ==
    IF IsAliasChange(c)
    THEN AliasRrset(c.Name, c.AliasTarget.HostedZoneId, c.AliasTarget.DNSName)
    ELSE PlainRrset(c.Name, c.Type, PyInt(c.TTL), c.ResourceRecords)

Range(s) == {s[i] : i \in 1..Len(s)}

\* the rrset r is the one a DELETE change names
MatchesChange(r, c) ==
    /\ r.name = c.Name
    /\ r.type = c.Type
    /\ IF IsAliasChange(c)
       THEN /\ IsAliasRrset(r)
            /\ r.alias_hosted_zone_id = c.AliasTarget.HostedZoneId
            /\ r.alias_dns_name = c.AliasTarget.DNSName
       ELSE /\ ~IsAliasRrset(r)
            /\ r.ttl = PyInt(c.TTL)
            /\ Range(r.resource_records) = Range(c.ResourceRecords)

\* one Change applied to the rrsets of a zone; acc is [ok, rrsets].  A DELETE must
\* name an rrset as it is, a CREATE an rrset that is not there
ApplyChange(acc, c) ==
    IF ~acc.ok THEN acc
    ELSE Bind(acc.rrsets, LAMBDA rs :
         Bind(ListedBeforeCount(rs, c.Name, c.Type, 1, Len(rs)), LAMBDA before :
         Bind(/\ before < Len(rs)
              /\ rs[before + 1].name = c.Name
              /\ rs[before + 1].type = c.Type, LAMBDA there :
            IF c.Action = "DELETE"
            THEN IF there /\ MatchesChange(rs[before + 1], c)
                 THEN [ok |-> TRUE, rrsets |-> PySlice(rs, 0, before) \o PyFrom(rs, before + 1)]
                 ELSE [ok |-> FALSE, rrsets |-> rs]
            ELSE IF there \/ (~IsAliasChange(c) /\ Len(c.ResourceRecords) = 0)
                 THEN [ok |-> FALSE, rrsets |-> rs]
                 ELSE [ok |-> TRUE,
                       rrsets |-> PySlice(rs, 0, before) \o <<RrsetOfChange(c)>>
                                  \o PyFrom(rs, before)])))

\* conn.change_rrsets(id, xml): the whole batch is applied, or none of it
ChangeRrsets(zs, zid, xml) ==
    Bind(ZoneIndex(zs, zid), LAMBDA z :
        IF z = 0 THEN [ok |-> FALSE, zones |-> zs]
        ELSE Bind(ForEach(ApplyChange, [ok |-> TRUE, rrsets |-> zs[z].rrsets], xml.changes),
                  LAMBDA done :
                      IF done.ok
                      THEN [ok |-> TRUE, zones |-> [zs EXCEPT ![z].rrsets = done.rrsets]]
                      ELSE [ok |-> FALSE, zones |-> zs]))

\* conn.delete_hosted_zone(id): refused while the zone holds rrsets of its own
DeleteHostedZone(zs, zid) ==
    Bind(ZoneIndex(zs, zid), LAMBDA z :
        IF z = 0 THEN [ok |-> FALSE, zones |-> zs]
        ELSE IF \E i \in 1..Len(zs[z].rrsets) :
                    ~(zs[z].rrsets[i].name = zs[z].Name
                      /\ zs[z].rrsets[i].type \in {"NS", "SOA"})
        THEN [ok |-> FALSE, zones |-> zs]
        ELSE [ok |-> TRUE, zones |-> SelectSeq(zs, LAMBDA h : h.Id # zs[z].Id)])

----------------------------------------------------------------------------
(* Zone: rendering of changes.                                             *)

\* keys of one request: r53.py lines 97, 106, 116, 169 and 386
DeleteGroup == 100
UpdateGroup == 50
AddGroup == 100
CreateGroup == 100
RemoveGroup == 100

\* words[2] taken for the zone id and words[1] for the DNS name
ChangeAliasXml_Swapped(action, name, rvalue) ==
    [raised |-> Len(PySplit(rvalue)) < 3,
     xml |-> <<[Action |-> action, Name |-> name, Type |-> "A",
                AliasTarget |-> [HostedZoneId |-> PySplit(rvalue)[3],
                                 DNSName |-> PySplit(rvalue)[2]]]>>]

\* Zone._change_alias_xml: words[1] and words[2] of the value; an IndexError
\* when the value has fewer than three words
ChangeAliasXml(action, name, rvalue) ==
    LET words == PySplit(rvalue) IN
    IF Len(words) < 3 THEN [raised |-> TRUE, xml |-> <<>>]
    ELSE [raised |-> FALSE,
          xml |-> <<[Action |-> action, Name |-> name, Type |-> "A",
                     AliasTarget |-> [HostedZoneId |-> words[2], DNSName |-> words[3]]]>>]

\* values.pop(0) in place of values.remove(rvalue)
ListRemove_First(values, rvalue) == Tail(values)

\* values.remove(rvalue): the first occurrence is taken out of the list
ListRemove(values, rvalue) ==
    LET i == CHOOSE j \in 1..Len(values) :
                 values[j] = rvalue /\ \A k \in 1..(j - 1) : values[k] # rvalue
    IN SubSeq(values, 1, i - 1) \o SubSeq(values, i + 1, Len(values))

\* Zone._change_xml: [raised, xml, values], values being the list as the call leaves it
RECURSIVE ChangeXml(_, _, _, _, _)
ChangeXml(action, name, rtype, ttl, values) ==
    LET aliases == {i \in 1..Len(values) : PySlice(values[i], 0, 6) = ALIAS_WORD} IN
    IF rtype = "A" /\ aliases # {}
    THEN Bind(values[CHOOSE j \in aliases : \A k \in aliases : j <= k], LAMBDA rvalue :
         Bind(ChangeAliasXml(action, name, rvalue), LAMBDA alias :
            IF alias.raised THEN [raised |-> TRUE, xml |-> <<>>, values |-> values]
            ELSE IF Len(values) > 1
            THEN Bind(ChangeXml(action, name, rtype, ttl, ListRemove(values, rvalue)),
                      LAMBDA rest :
                          [raised |-> rest.raised, xml |-> alias.xml \o rest.xml,
                           values |-> rest.values])
            ELSE [raised |-> FALSE, xml |-> alias.xml, values |-> values]))
    ELSE [raised |-> FALSE,
          xml |-> <<[Action |-> action, Name |-> name, Type |-> rtype,
                     TTL |-> PyStr(ttl), ResourceRecords |-> values]>>,
          values |-> values]

\* Zone._add_change_xml
AddChangeXml(name, rtype, ttl, values) == ChangeXml("CREATE", name, rtype, ttl, values)

\* the action of an addition given to a deletion
DeleteChangeXml_Creates(name, rtype, ttl, values) ==
    ChangeXml("CREATE", name, rtype, ttl, values)

\* Zone._delete_change_xml
DeleteChangeXml(name, rtype, ttl, values) == ChangeXml("DELETE", name, rtype, ttl, values)

\* range(0, len(rrecord_keys) - size + 1, size): the keys after the last full group
\* left out
Groups_FullOnly(rrecord_keys, size) ==
    [g \in 1..(Len(rrecord_keys) \div size) |->
        PySlice(rrecord_keys, (g - 1) * size, (g - 1) * size + size)]

\* rrecord_keys[n:n+size+1] in place of rrecord_keys[n:n+size]
Groups_OneMore(rrecord_keys, size) ==
    [g \in 1..((Len(rrecord_keys) + size) \div (size + 1)) |->
        PySlice(rrecord_keys, (g - 1) * (size + 1), (g - 1) * (size + 1) + size + 1)]

\* rrecord_groups = [rrecord_keys[n:n+size] for n in range(0, len(rrecord_keys), size)]
Groups(rrecord_keys, size) ==
    [g \in 1..((Len(rrecord_keys) + size - 1) \div size) |->
        PySlice(rrecord_keys, (g - 1) * size, (g - 1) * size + size)]

\* xml_header + changes + xml_footer; group and slice record what the request was built from
Request(group, slice, changes) ==
    [group |-> group, slice |-> slice, comment |-> zone_name, changes |-> changes]

\* the delete and the add of one update key: values is <<old, new>>
UpdateChangeXml(name, rtype, ttl, values) ==
    Bind(DeleteChangeXml(name, rtype, ttl, values[1]), LAMBDA del :
        IF del.raised THEN [raised |-> TRUE, xml |-> <<>>, values |-> values]
        ELSE Bind(AddChangeXml(name, rtype, ttl, values[2]), LAMBDA add :
                 [raised |-> add.raised, xml |-> del.xml \o add.xml,
                  values |-> <<del.values, add.values>>]))

\* the changes of one key of the deletes, the updates or the adds
Render(group, name, rtype, ttl, values) ==
    CASE group = "deletes" -> DeleteChangeXml(name, rtype, ttl, values)
      [] group = "updates" -> UpdateChangeXml(name, rtype, ttl, values)
      [] group = "adds" -> AddChangeXml(name, rtype, ttl, values)

\* the loop over the groups of a dict of value lists (the deletes, the updates or
\* the adds); acc is [raised, changesets, d], d being the dict with its lists as
\* rendering leaves them
RenderGroups(group, d, size) ==
    ForEach(
        LAMBDA acc, slice :
            IF acc.raised THEN acc
            ELSE Bind(
                ForEach(
                    LAMBDA b, key :
                        IF b.raised THEN b
                        ELSE Bind(Render(group, key[1], key[2], key[3], b.d.val[key]),
                                  LAMBDA r :
                                      [raised |-> r.raised,
                                       changes |-> b.changes \o r.xml,
                                       d |-> [b.d EXCEPT !.val[key] = r.values]]),
                    [raised |-> FALSE, changes |-> <<>>, d |-> acc.d],
                    slice),
                LAMBDA body :
                    [raised |-> body.raised,
                     changesets |-> IF body.raised THEN acc.changesets
                                    ELSE Append(acc.changesets,
                                                Request(group, slice, body.changes)),
                     d |-> body.d]),
        [raised |-> FALSE, changesets |-> <<>>, d |-> d],
        Groups(DictKeys(d), size))

\* the loop over the adds put before the other two
Changesets_AddsFirst(deletes_xml, updates_xml, adds_xml) ==
    adds_xml \o deletes_xml \o updates_xml

\* changesets, after the three loops of Zone._create_changeset have appended to it
Changesets(deletes_xml, updates_xml, adds_xml) == deletes_xml \o updates_xml \o adds_xml

\* the test of the three lengths left out: a list of requests, never None
CreateChangeset_NeverNone(adds, deletes, updates) ==
    [none |-> FALSE,
     raised |-> FALSE,
     changesets |-> Changesets(RenderGroups("deletes", deletes, DeleteGroup).changesets,
                               RenderGroups("updates", updates, UpdateGroup).changesets,
                               RenderGroups("adds", adds, AddGroup).changesets),
     adds |-> adds, deletes |-> deletes, updates |-> updates]

\* Zone._create_changeset: None, or the requests for the deletes, then the updates,
\* then the adds
CreateChangeset(adds, deletes, updates) ==
    IF Len(adds.keys) = 0 /\ Len(deletes.keys) = 0 /\ Len(updates.keys) = 0
    THEN [none |-> TRUE, raised |-> FALSE, changesets |-> <<>>,
          adds |-> adds, deletes |-> deletes, updates |-> updates]
    ELSE Bind(RenderGroups("deletes", deletes, DeleteGroup), LAMBDA ds :
         Bind(RenderGroups("updates", updates, UpdateGroup), LAMBDA us :
         Bind(RenderGroups("adds", adds, AddGroup), LAMBDA as :
            [none |-> FALSE,
             raised |-> ds.raised \/ us.raised \/ as.raised,
             changesets |-> IF ds.raised THEN <<>>
                            ELSE IF us.raised THEN ds.changesets
                            ELSE Changesets(ds.changesets, us.changesets, as.changesets),
             adds |-> IF ds.raised \/ us.raised THEN adds ELSE as.d,
             deletes |-> ds.d,
             updates |-> IF ds.raised THEN updates ELSE us.d])))

----------------------------------------------------------------------------
(* Zone: record sets.  A dns.zone object is modelled by what               *)
(* iterate_rdatas() yields: the sequence of its rdatas [name, ttl, rtype,  *)
(* text], no rdata twice.  A line of bind text is [name, ttl, rtype, text] *)
(* with ttl still text.                                                    *)

\* the SOA alone taken for generated
IsGenerated_SoaOnly(name, rtype) == rtype = "SOA"

\* NS of the root and SOA: the records amazon generates
IsGenerated(name, rtype) ==
    \/ rtype = "NS" /\ PyDropLast(name) = zone_name
    \/ rtype = "SOA"

\* Zone._get_rrecords: the dict {(name, rtype, ttl): [rvalue, ...]}
GetRrecords(dnszone) ==
    ForEach(
        LAMBDA rrecords, rdata :
            IF IsGenerated(rdata.name, rdata.rtype) THEN rrecords
            ELSE Bind(rdata.rtype = "TXT" /\ PySlice(rdata.text, 1, 7) = ALIAS_WORD,
                      LAMBDA alias :
                 Bind(IF alias THEN StripQuotes(rdata.text) ELSE rdata.text, LAMBDA rvalue :
                 Bind(IF alias /\ PySlice(rdata.name, 0, 7) = ALIAS_NAME_PREFIX
                      THEN PyFrom(rdata.name, 7) ELSE rdata.name, LAMBDA name :
                 Bind(<<name, IF alias THEN "A" ELSE rdata.rtype, rdata.ttl>>, LAMBDA key :
                    IF HasKey(rrecords, key)
                    THEN DictPut(rrecords, key, Append(rrecords.val[key], rvalue))
                    ELSE DictPut(rrecords, key, <<rvalue>>))))),
        EmptyDict,
        dnszone)

\* Zone._get_rrsets, on the rrsets one listing call returned
GetRrsets(rrsets) ==
    ForEach(
        LAMBDA acc, rrecord :
            LET ttl == PyStr(rrecord.ttl)
                lines ==
                    IF Len(rrecord.resource_records) = 0 /\ rrecord.alias_hosted_zone_id # None
                    THEN <<[name |-> ALIAS_NAME_PREFIX \o rrecord.name, ttl |-> ttl,
                            rtype |-> "TXT",
                            text |-> <<"\"">> \o ALIAS_WORD \o rrecord.alias_hosted_zone_id
                                     \o <<" ">> \o rrecord.alias_dns_name \o <<"\"">>]>>
                    ELSE [i \in 1..Len(rrecord.resource_records) |->
                             [name |-> rrecord.name, ttl |-> ttl, rtype |-> rrecord.type,
                              text |-> rrecord.resource_records[i]]]
            IN [simple_bind |-> acc.simple_bind \o lines, number |-> acc.number + 1,
                last_type |-> rrecord.type, last_name |-> rrecord.name],
        [simple_bind |-> <<>>, number |-> 0, last_type |-> None, last_name |-> None],
        rrsets)

\* dns.zone.from_text(simple_bind, relativize=False): the rdatas are kept by name
\* and type, and one that is there already is not added again
FromText(simple_bind) ==
    Bind(
        ForEach(
            LAMBDA nodes, line :
                Bind([name |-> line.name, ttl |-> PyInt(line.ttl),
                      rtype |-> line.rtype, text |-> line.text], LAMBDA rdata :
                Bind(<<line.name, line.rtype>>, LAMBDA at :
                   IF ~HasKey(nodes, at) THEN DictPut(nodes, at, <<rdata>>)
                   ELSE IF rdata \in Range(nodes.val[at]) THEN nodes
                   ELSE DictPut(nodes, at, Append(nodes.val[at], rdata)))),
            EmptyDict,
            simple_bind),
        LAMBDA rdatasets :
            ForEach(LAMBDA acc, at : [zone |-> acc.zone \o rdatasets.val[at]],
                    [zone |-> <<>>],
                    rdatasets.keys).zone)

\* lines > 100 in place of lines > 99
FullPage_Hundred == 99 + 1

\* lines > 99 in Zone._to_dnszone
FullPage == 99

\* the loop of Zone._to_dnszone: [raised, simple_bind, listed], listed being the
\* get_all_rrsets calls made
RECURSIVE ToDnszoneLoop(_, _, _, _, _, _)
ToDnszoneLoop(zs, zid, last_type, last_name, simple_bind, listed) ==
    Bind(GetAllRrsets(zs, zid, last_type, last_name), LAMBDA got :
    Bind([call |-> "get_all_rrsets", id |-> zid, type |-> last_type,
          name |-> last_name, ok |-> got.ok, returned |-> got.rrsets], LAMBDA call :
       IF ~got.ok
       THEN [raised |-> TRUE, simple_bind |-> simple_bind, listed |-> Append(listed, call)]
       ELSE Bind(GetRrsets(got.rrsets), LAMBDA batch :
               IF batch.number > FullPage
               THEN ToDnszoneLoop(zs, zid, batch.last_type, batch.last_name,
                                  simple_bind \o batch.simple_bind, Append(listed, call))
               ELSE [raised |-> FALSE, simple_bind |-> simple_bind \o batch.simple_bind,
                     listed |-> Append(listed, call)])))

\* Zone._to_dnszone: [raised, zone, listed]
ToDnszone(zs, zid) ==
    Bind(ToDnszoneLoop(zs, zid, None, None, <<>>, <<>>), LAMBDA r :
        [raised |-> r.raised,
         zone |-> IF r.raised THEN <<>> ELSE FromText(r.simple_bind),
         listed |-> r.listed])

\* a log record that does not name its key
Logged_NoKey(level, msg, key, values) ==
    [level |-> level, msg |-> msg, key |-> None, values |-> values]

\* a log record; key is None for a message about the zone
Logged(level, msg, key, values) ==
    [level |-> level, msg |-> msg, key |-> key, values |-> values]

\* Zone._compare: [adds, deletes, updates, log]; from_records and to_records are the
\* two dicts as _get_rrecords returned them
Compare(from_zone, to_zone) ==
    Bind(GetRrecords(from_zone), LAMBDA from_records :
    Bind(GetRrecords(to_zone), LAMBDA to_records :
    Bind(
        ForEach(
            LAMBDA acc, key :
                IF IsGenerated(key[1], key[2]) THEN acc
                ELSE IF HasKey(acc.from_records, key)
                THEN Bind(PySort(acc.from_records.val[key]), LAMBDA from_sorted :
                     Bind(PySort(acc.to_records.val[key]), LAMBDA to_sorted :
                     Bind(from_sorted # to_sorted, LAMBDA differ :
                        [from_records |-> DictDel(acc.from_records, key),
                         to_records |-> DictPut(acc.to_records, key, to_sorted),
                         adds |-> acc.adds,
                         updates |-> IF differ
                                     THEN DictPut(acc.updates, key, <<from_sorted, to_sorted>>)
                                     ELSE acc.updates,
                         log |-> IF differ
                                 THEN Append(acc.log, Logged("WARN", "Updating", key, to_sorted))
                                 ELSE acc.log])))
                ELSE [acc EXCEPT
                         !.adds = DictPut(@, key, acc.to_records.val[key]),
                         !.log = Append(@, Logged("WARN", "Adding", key,
                                                  acc.to_records.val[key]))],
            [from_records |-> from_records, to_records |-> to_records,
             adds |-> EmptyDict, updates |-> EmptyDict, log |-> <<>>],
            DictKeys(to_records)),
        LAMBDA first :
    Bind(
        ForEach(
            LAMBDA acc, key :
                [deletes |-> DictPut(acc.deletes, key, first.from_records.val[key]),
                 log |-> Append(acc.log, Logged("WARN", "Removing", key,
                                                first.from_records.val[key]))],
            [deletes |-> EmptyDict, log |-> first.log],
            DictKeys(first.from_records)),
        LAMBDA second :
            [adds |-> first.adds, deletes |-> second.deletes, updates |-> first.updates,
             log |-> second.log, from_records |-> from_records,
             to_records |-> to_records]))))

\* the keys put in requests twice the size
CreateXml_TwiceTheSize(dnszone) ==
    RenderGroups("adds", GetRrecords(dnszone), CreateGroup + CreateGroup)

\* Zone._create_xml, on the zone dns.zone.from_file read
CreateXml(dnszone) ==
    RenderGroups("adds", GetRrecords(dnszone), CreateGroup)

\* the requests Zone.remove builds: [raised, changesets, log]
RemoveXmllist(rrecords) ==
    ForEach(
        LAMBDA acc, slice :
            IF acc.raised THEN acc
            ELSE Bind(
                ForEach(
                    LAMBDA b, key :
                        IF b.raised \/ IsGenerated(key[1], key[2]) THEN b
                        ELSE Bind(DeleteChangeXml(key[1], key[2], key[3], rrecords.val[key]),
                                  LAMBDA r :
                                      [raised |-> r.raised,
                                       change_needed |-> TRUE,
                                       changes |-> b.changes \o r.xml,
                                       log |-> Append(b.log,
                                                      Logged("DEBUG", "Removing", key,
                                                             rrecords.val[key]))]),
                    [raised |-> FALSE, change_needed |-> FALSE, changes |-> <<>>,
                     log |-> acc.log],
                    slice),
                LAMBDA body :
                    [raised |-> body.raised,
                     changesets |-> IF body.change_needed /\ ~body.raised
                                    THEN Append(acc.changesets,
                                                Request("deletes", slice, body.changes))
                                    ELSE acc.changesets,
                     log |-> body.log]),
        [raised |-> FALSE, changesets |-> <<>>, log |-> <<>>],
        Groups(DictKeys(rrecords), RemoveGroup))

\* the loop going on to the next request after a call that failed
SubmitAll_GoesOn(zs, zid, changesets, failAt) ==
    ForEach(
        LAMBDA acc, xml :
            Bind(IF Len(acc.calls) + 1 = failAt THEN [ok |-> FALSE, zones |-> acc.zones]
                 ELSE ChangeRrsets(acc.zones, zid, xml), LAMBDA done :
                [zones |-> done.zones,
                 calls |-> Append(acc.calls, [call |-> "change_rrsets", id |-> zid,
                                              xml |-> xml, ok |-> done.ok]),
                 raised |-> acc.raised \/ ~done.ok]),
        [zones |-> zs, calls |-> <<>>, raised |-> FALSE],
        changesets)

\* for xml in changesets: conn.change_rrsets(id, xml), the failAt-th call failing in
\* transit and any call the provider refuses raising; [zones, calls, raised]
SubmitAll(zs, zid, changesets, failAt) ==
    ForEach(
        LAMBDA acc, xml :
            IF acc.raised THEN acc
            ELSE Bind(IF Len(acc.calls) + 1 = failAt
                      THEN [ok |-> FALSE, zones |-> acc.zones]
                      ELSE ChangeRrsets(acc.zones, zid, xml), LAMBDA done :
                    [zones |-> done.zones,
                     calls |-> Append(acc.calls, [call |-> "change_rrsets", id |-> zid,
                                                  xml |-> xml, ok |-> done.ok]),
                     raised |-> ~done.ok]),
        [zones |-> zs, calls |-> <<>>, raised |-> FALSE],
        changesets)

\* the test of self.id left out: the provider is asked every time
Exists_Asks(zs, zid) ==
    Bind({i \in 1..Len(zs) : PyDropLast(zs[i].Name) = zone_name}, LAMBDA found :
    Bind(<<[call |-> "get_all_hosted_zones"]>>, LAMBDA listing :
       IF found = {} THEN [result |-> FALSE, id |-> zid, calls |-> listing]
       ELSE [result |-> TRUE,
             id |-> StripHostedZone(zs[CHOOSE i \in found : \A j \in found : i <= j].Id),
             calls |-> listing]))

\* Zone.exists: [result, id, calls]
Exists(zs, zid) ==
    IF zid # None THEN [result |-> TRUE, id |-> zid, calls |-> <<>>]
    ELSE Bind({i \in 1..Len(zs) : PyDropLast(zs[i].Name) = zone_name}, LAMBDA found :
         Bind(<<[call |-> "get_all_hosted_zones"]>>, LAMBDA listing :
            IF found = {} THEN [result |-> FALSE, id |-> zid, calls |-> listing]
            ELSE [result |-> TRUE,
                  id |-> StripHostedZone(zs[CHOOSE i \in found : \A j \in found : i <= j].Id),
                  calls |-> listing]))

----------------------------------------------------------------------------
(* Zone: the operations.  Each yields [id, zones, calls, log, last]: the   *)
(* identifier and the provider as the call leaves them, the provider calls *)
(* and the log records it made, and the record of the call.                *)

NoOperation ==
    [op |-> "init", dry_run |-> FALSE, result |-> "returned",
     id_before |-> None, zones_before |-> <<>>, listed |-> FALSE,
     current |-> EmptyDict, desired |-> EmptyDict,
     adds |-> EmptyDict, deletes |-> EmptyDict, updates |-> EmptyDict,
     changesets |-> <<>>, output |-> <<>>]

Operation(op, dry_run, zid, zs) ==
    [NoOperation EXCEPT !.op = op, !.dry_run = dry_run, !.id_before = zid,
                        !.zones_before = zs]

\* if self.id == None: if not self.exists(): ...
ExistsIfUnknown(zs, zid) ==
    IF zid = None THEN Exists(zs, zid) ELSE [result |-> TRUE, id |-> zid, calls |-> <<>>]

\* Zone.update
Update(zs, zid, dnszone, dry_run, failAt) ==
    Bind(ExistsIfUnknown(zs, zid), LAMBDA ex :
    Bind(Operation("update", dry_run, zid, zs), LAMBDA op :
       IF ~ex.result
       THEN [id |-> ex.id, zones |-> zs, calls |-> ex.calls,
             log |-> <<Logged("ERROR", "The zone doesn't exist", None, <<>>)>>,
             last |-> [op EXCEPT !.result = "refused"]]
       ELSE Bind(ToDnszone(zs, ex.id), LAMBDA r53zone :
       IF r53zone.raised
       THEN [id |-> ex.id, zones |-> zs, calls |-> ex.calls \o r53zone.listed,
             log |-> <<>>, last |-> [op EXCEPT !.result = "raised"]]
       ELSE Bind(Compare(r53zone.zone, dnszone), LAMBDA c :
            Bind(CreateChangeset(c.adds, c.deletes, c.updates), LAMBDA cs :
            Bind([op EXCEPT !.listed = TRUE,
                            !.current = c.from_records, !.desired = c.to_records,
                            !.adds = c.adds, !.deletes = c.deletes,
                            !.updates = c.updates, !.changesets = cs.changesets],
                 LAMBDA compared :
            Bind(ex.calls \o r53zone.listed, LAMBDA listing :
               IF cs.raised
               THEN [id |-> ex.id, zones |-> zs, calls |-> listing, log |-> c.log,
                     last |-> [compared EXCEPT !.result = "raised"]]
               ELSE IF cs.none
               THEN [id |-> ex.id, zones |-> zs, calls |-> listing,
                     log |-> Append(c.log, Logged("WARN", "No differences found", None, <<>>)),
                     last |-> [compared EXCEPT !.result = "no differences"]]
               ELSE IF dry_run
               THEN [id |-> ex.id, zones |-> zs, calls |-> listing,
                     log |-> Append(c.log, Logged("WARN", "Updating zone", None, <<>>)),
                     last |-> compared]
               ELSE Bind(SubmitAll(zs, ex.id, cs.changesets, failAt), LAMBDA sub :
                       [id |-> ex.id, zones |-> sub.zones, calls |-> listing \o sub.calls,
                        log |-> Append(c.log, Logged("WARN", "Updating zone", None, <<>>)),
                        last |-> [compared EXCEPT
                                     !.result = IF sub.raised THEN "raised"
                                                ELSE "returned"]]))))))))

\* Zone.create; n is the number of hosted zones the provider has created
Create(zs, n, zid, dnszone, dry_run, failAt) ==
    Bind(Operation("create", dry_run, zid, zs), LAMBDA op :
    IF zid # None
    THEN [id |-> zid, zones |-> zs, calls |-> <<>>,
          log |-> <<Logged("ERROR", "A zone definition already exists", None, <<>>)>>,
          last |-> [op EXCEPT !.result = "refused"]]
    ELSE IF dry_run
    THEN [id |-> zid, zones |-> zs, calls |-> <<>>,
          log |-> <<Logged("WARN", "Creating zone", None, <<>>)>>, last |-> op]
    ELSE Bind(CreateHostedZone(zs, n, zone_name), LAMBDA created :
         Bind(StripHostedZone(created[Len(created)].Id), LAMBDA newid :
         Bind(CreateXml(dnszone), LAMBDA zone_xml :
         Bind(<<[call |-> "create_hosted_zone", name |-> zone_name]>>, LAMBDA creating :
         Bind(<<Logged("WARN", "Creating zone", None, <<>>),
                Logged("WARN", "Zone nameservers", None, <<>>)>>, LAMBDA said :
         Bind(GetRrecords(dnszone), LAMBDA rrecords :
         Bind([op EXCEPT !.desired = rrecords, !.adds = rrecords,
                         !.changesets = zone_xml.changesets], LAMBDA built :
            IF zone_xml.raised
            THEN [id |-> newid, zones |-> created, calls |-> creating, log |-> said,
                  last |-> [built EXCEPT !.result = "raised"]]
            ELSE Bind(SubmitAll(created, newid, zone_xml.changesets, failAt), LAMBDA sub :
                    [id |-> newid, zones |-> sub.zones, calls |-> creating \o sub.calls,
                     log |-> said,
                     last |-> [built EXCEPT
                                  !.result = IF sub.raised THEN "raised"
                                             ELSE "returned"]])))))))))

\* Zone.remove, under "if not dry_run:"; the zone deletion is the call after the
\* last request
Removal(zs, op, ex, failAt) ==
    Bind(<<Logged("WARN", "Removing zone", None, <<>>)>>, LAMBDA removing :
    Bind(ToDnszone(zs, ex.id), LAMBDA r53zone :
       IF r53zone.raised
       THEN [id |-> ex.id, zones |-> zs, calls |-> ex.calls \o r53zone.listed,
             log |-> removing, last |-> [op EXCEPT !.result = "raised"]]
       ELSE Bind(GetRrecords(r53zone.zone), LAMBDA rrecords :
            Bind(RemoveXmllist(rrecords), LAMBDA x :
            Bind([op EXCEPT !.listed = TRUE, !.current = rrecords,
                            !.deletes = rrecords, !.changesets = x.changesets],
                 LAMBDA built :
            Bind(ex.calls \o r53zone.listed, LAMBDA listing :
               IF x.raised
               THEN [id |-> ex.id, zones |-> zs, calls |-> listing, log |-> removing \o x.log,
                     last |-> [built EXCEPT !.result = "raised"]]
               ELSE Bind(SubmitAll(zs, ex.id, x.changesets, failAt), LAMBDA sub :
               IF sub.raised
               THEN [id |-> ex.id, zones |-> sub.zones, calls |-> listing \o sub.calls,
                     log |-> removing \o x.log, last |-> [built EXCEPT !.result = "raised"]]
               ELSE Bind(IF Len(x.changesets) + 1 = failAt
                         THEN [ok |-> FALSE, zones |-> sub.zones]
                         ELSE DeleteHostedZone(sub.zones, ex.id), LAMBDA del :
                    [id |-> ex.id, zones |-> del.zones,
                     calls |-> listing \o sub.calls
                               \o <<[call |-> "delete_hosted_zone", id |-> ex.id,
                                     ok |-> del.ok]>>,
                     log |-> removing \o x.log,
                     last |-> [built EXCEPT
                                  !.result = IF del.ok THEN "returned"
                                             ELSE "raised"]]))))))))

\* Zone.remove with the test of dry_run left out
Remove_IgnoresDryRun(zs, zid, dry_run, failAt) ==
    Bind(ExistsIfUnknown(zs, zid), LAMBDA ex :
    Bind(Operation("remove", dry_run, zid, zs), LAMBDA op :
       IF ~ex.result
       THEN [id |-> ex.id, zones |-> zs, calls |-> ex.calls,
             log |-> <<Logged("WARN", "Zone doesn't exist", None, <<>>)>>,
             last |-> [op EXCEPT !.result = "refused"]]
       ELSE Removal(zs, op, ex, failAt)))

\* Zone.remove
Remove(zs, zid, dry_run, failAt) ==
    Bind(ExistsIfUnknown(zs, zid), LAMBDA ex :
    Bind(Operation("remove", dry_run, zid, zs), LAMBDA op :
       IF ~ex.result
       THEN [id |-> ex.id, zones |-> zs, calls |-> ex.calls,
             log |-> <<Logged("WARN", "Zone doesn't exist", None, <<>>)>>,
             last |-> [op EXCEPT !.result = "refused"]]
       ELSE IF dry_run
       THEN [id |-> ex.id, zones |-> zs, calls |-> ex.calls,
             log |-> <<Logged("WARN", "Removing zone", None, <<>>)>>, last |-> op]
       ELSE Removal(zs, op, ex, failAt)))

\* Zone.__repr__
Repr(zs, zid) ==
    Bind(Exists(zs, zid), LAMBDA ex :
    Bind(Operation("show", FALSE, zid, zs), LAMBDA op :
       IF ~ex.result
       THEN [id |-> ex.id, zones |-> zs, calls |-> ex.calls, log |-> <<>>,
             last |-> [op EXCEPT !.result = "refused"]]
       ELSE Bind(ToDnszone(zs, ex.id), LAMBDA dnszone :
               [id |-> ex.id, zones |-> zs, calls |-> ex.calls \o dnszone.listed,
                log |-> <<>>,
                last |-> IF dnszone.raised THEN [op EXCEPT !.result = "raised"]
                         ELSE [op EXCEPT !.listed = TRUE, !.output = dnszone.zone]])))

----------------------------------------------------------------------------
(* Zone: single hosts, and the update_host command (src/bin/update_host.py). *)

\* len(rrecords) == 100 in Zone.get_host
HostPage == 100

\* the ttl option of update_host when none is given
DefaultTtl == 3600

\* a name as Route 53 reads it: fully qualified, with its trailing dot
FullyQualified(name) ==
    IF Len(name) > 0 /\ name[Len(name)] = "." THEN name ELSE Append(name, ".")

\* a request as Route 53 reads it
Normalised(xml) ==
    [xml EXCEPT !.changes = [i \in 1..Len(xml.changes) |->
                                [xml.changes[i] EXCEPT !.Name = FullyQualified(@)]]]

\* Zone.get_host: [raised, existing, calls]; existing is None or (rtype, values,
\* ttl), and calls is listed with the get_all_rrsets calls made added to it
RECURSIVE GetHost(_, _, _, _, _, _)
GetHost(zs, zid, host, ltype, lname, listed) ==
    Bind(GetAllRrsets(zs, zid, ltype, lname), LAMBDA got :
    Bind(Append(listed, [call |-> "get_all_rrsets", id |-> zid, type |-> ltype,
                         name |-> lname, ok |-> got.ok, returned |-> got.rrsets]),
         LAMBDA made :
    IF ~got.ok THEN [raised |-> TRUE, existing |-> None, calls |-> made]
    ELSE Bind(got.rrsets, LAMBDA rrecords :
         Bind(IF PyDropLast(host) = <<".">> THEN host ELSE Append(host, "."), LAMBDA fqdn :
         Bind({i \in 1..Len(rrecords) : rrecords[i].name = fqdn}, LAMBDA at :
            IF at # {}
            THEN Bind(rrecords[CHOOSE i \in at : \A j \in at : i <= j], LAMBDA rrecord :
                    [raised |-> FALSE,
                     existing |->
                         IF Len(rrecord.resource_records) = 0
                            /\ rrecord.alias_hosted_zone_id # None
                         THEN <<"A",
                                <<ALIAS_WORD \o rrecord.alias_hosted_zone_id \o <<" ">>
                                  \o rrecord.alias_dns_name>>,
                                rrecord.ttl>>
                         ELSE <<rrecord.type, rrecord.resource_records, rrecord.ttl>>,
                     calls |-> made])
            ELSE IF Len(rrecords) = HostPage
            THEN GetHost(zs, zid, host, rrecords[Len(rrecords)].type,
                         rrecords[Len(rrecords)].name, made)
            ELSE [raised |-> FALSE, existing |-> None, calls |-> made])))))

\* the one request of create_host or update_host submitted:
\* [raised, zones, calls, log, changesets]
SubmitHost(zs, zid, xmlout, said) ==
    Bind(ChangeRrsets(zs, zid, Normalised(xmlout)), LAMBDA done :
        [raised |-> ~done.ok, zones |-> done.zones,
         calls |-> <<[call |-> "change_rrsets", id |-> zid, xml |-> xmlout,
                      ok |-> done.ok]>>,
         log |-> <<said>>, changesets |-> <<xmlout>>])

\* Zone.create_host
CreateHost(zs, zid, fqdn, rtype, ttl, value) ==
    Bind(AddChangeXml(fqdn, rtype, ttl, <<value>>), LAMBDA add :
        IF add.raised
        THEN [raised |-> TRUE, zones |-> zs, calls |-> <<>>, log |-> <<>>,
              changesets |-> <<>>]
        ELSE SubmitHost(zs, zid, Request("adds", <<<<fqdn, rtype, ttl>>>>, add.xml),
                        Logged("WARN", "Adding", <<fqdn, rtype, ttl>>, <<value>>)))

\* Zone.update_host
UpdateHost(zs, zid, fqdn, rtype, ttl, existing, value) ==
    Bind(DeleteChangeXml(fqdn, existing[1], existing[3], existing[2]), LAMBDA del :
    Bind(AddChangeXml(fqdn, rtype, ttl, <<value>>), LAMBDA add :
        IF del.raised \/ add.raised
        THEN [raised |-> TRUE, zones |-> zs, calls |-> <<>>, log |-> <<>>,
              changesets |-> <<>>]
        ELSE SubmitHost(zs, zid,
                        Request("updates", <<<<fqdn, rtype, ttl>>>>, del.xml \o add.xml),
                        Logged("WARN", "Updating", <<fqdn, rtype, ttl>>, <<value>>))))

\* the record of a run of the update_host command, the run-th of a behaviour
HostOperation(host, zs, run) ==
    [op |-> "update_host", dry_run |-> FALSE, result |-> "returned",
     id_before |-> None, zones_before |-> zs, listed |-> FALSE,
     current |-> EmptyDict, desired |-> EmptyDict,
     adds |-> EmptyDict, deletes |-> EmptyDict, updates |-> EmptyDict,
     changesets |-> <<>>, output |-> <<>>,
     host |-> host, run |-> run, existing |-> None, called |-> None]

\* main of update_host.py from r53zone = Zone(conn, domain) on, domain being the
\* zone's name
UpdateHostCommand(zs, host, rtype, ttl, value, run) ==
    Bind(Exists(zs, None), LAMBDA ex :
    Bind(HostOperation(host, zs, run), LAMBDA op :
        IF ~ex.result
        THEN [id |-> ex.id, zones |-> zs, calls |-> ex.calls,
              log |-> <<Logged("ERROR", "Zone doesn't exist!", None, <<>>)>>,
              last |-> [op EXCEPT !.result = "refused"]]
        ELSE Bind(GetHost(zs, ex.id, host, None, None, <<>>), LAMBDA got :
        IF got.raised
        THEN [id |-> ex.id, zones |-> zs, calls |-> ex.calls \o got.calls, log |-> <<>>,
              last |-> [op EXCEPT !.result = "raised"]]
        ELSE Bind(IF got.existing = None
                  THEN CreateHost(zs, ex.id, host, rtype, ttl, value)
                  ELSE UpdateHost(zs, ex.id, host, rtype, ttl, got.existing, value),
                  LAMBDA done :
                [id |-> ex.id, zones |-> done.zones,
                 calls |-> ex.calls \o got.calls \o done.calls,
                 log |-> done.log,
                 last |-> [op EXCEPT
                              !.listed = TRUE,
                              !.existing = got.existing,
                              !.called = IF got.existing = None THEN "create_host"
                                         ELSE "update_host",
                              !.changesets = done.changesets,
                              !.result = IF done.raised THEN "raised"
                                         ELSE "returned"]]))))

----------------------------------------------------------------------------
(* The zones of the model.                                                 *)

APEX == Append(zone_name, ".")
WWW == <<"w", ".", "e", ".">>
SUB == <<"s", ".", "e", ".">>
FOREIGN == <<"o", ".">>
NAMESERVER == <<"n", ".">>
TARGET_ZONE == <<"Z">>
TARGET_NAME == <<"t", ".">>

Rdata(name, ttl, rtype, text) == [name |-> name, ttl |-> ttl, rtype |-> rtype, text |-> text]

\* "_alias.<name> <ttl> IN TXT "Alias Z t."" as dnspython reads it
AliasTxt(name, ttl) ==
    Rdata(ALIAS_NAME_PREFIX \o name, ttl, "TXT",
          <<"\"">> \o ALIAS_WORD \o TARGET_ZONE \o <<" ">> \o TARGET_NAME \o <<"\"">>)

\* the SOA and the NS of the origin, which dns.zone.from_file insists on
OriginRdatas ==
    <<Rdata(APEX, 3600, "SOA", <<"n", ".", " ", "1">>), Rdata(APEX, 3600, "NS", NAMESERVER)>>

\* the zone files of the model: the rdatas of the origin, then some of an A rrset,
\* an alias and a delegation
ZoneFiles ==
    {OriginRdatas \o a \o alias \o ns :
        a \in {<<>>,
               <<Rdata(WWW, 300, "A", <<"1">>)>>,
               <<Rdata(WWW, 300, "A", <<"2">>), Rdata(WWW, 300, "A", <<"1">>)>>,
               <<Rdata(WWW, 600, "A", <<"1">>)>>},
        alias \in {<<>>, <<AliasTxt(WWW, 300)>>, <<AliasTxt(WWW, 600)>>},
        ns \in {<<>>, <<Rdata(SUB, 300, "NS", NAMESERVER)>>}}

HostedZone(n, name, rrsets) ==
    [Id |-> <<HOSTEDZONE_PREFIX, "Z", Digit(n)>>, Name |-> name,
     rrsets |-> GeneratedRrsets(name) \o rrsets]

\* what the provider holds at the start: another zone and, or not, the zone itself
\* with some rrsets of its own, in listing order
Providers ==
    {<<HostedZone(1, FOREIGN, <<>>)>>}
    \cup {<<HostedZone(1, FOREIGN, <<>>), HostedZone(2, APEX, ns \o a)>> :
            ns \in {<<>>, <<PlainRrset(SUB, "NS", 300, <<NAMESERVER>>)>>},
            a \in {<<>>,
                   <<PlainRrset(WWW, "A", 300, <<<<"1">>>>)>>,
                   <<PlainRrset(WWW, "A", 300, <<<<"1">>, <<"2">>>>)>>,
                   <<AliasRrset(WWW, TARGET_ZONE, TARGET_NAME)>>}}

----------------------------------------------------------------------------
(* The state machine.                                                      *)

Init ==
    /\ id = None
    /\ zone_file \in ZoneFiles
    /\ hashOrder \in {"insertion", "reversed"}
    /\ zones \in Providers
    /\ nextId = Len(zones)
    /\ calls = <<>>
    /\ log = <<>>
    /\ last = NoOperation

Returns(r) ==
    /\ id' = r.id
    /\ zones' = r.zones
    /\ calls' = r.calls
    /\ log' = r.log
    /\ last' = r.last

\* r53zone.exists()
DoExists ==
    LET ex == Exists(zones, id)
    IN /\ Returns([id |-> ex.id, zones |-> zones, calls |-> ex.calls, log |-> <<>>,
                   last |-> [Operation("exists", FALSE, id, zones) EXCEPT
                                !.result = IF ex.result THEN "returned" ELSE "refused"]])
       /\ UNCHANGED <<zone_file, hashOrder, nextId>>

\* r53zone.create(zone_file, dry_run), a call of those in failures failing
DoCreateFailing(failures) ==
    \E dry_run \in BOOLEAN, failAt \in failures :
        /\ dry_run \/ id # None \/ nextId < MaxZones
        /\ Returns(Create(zones, nextId, id, zone_file, dry_run, failAt))
        /\ nextId' = IF dry_run \/ id # None THEN nextId ELSE nextId + 1
        /\ UNCHANGED <<zone_file, hashOrder>>

\* r53zone.update(zone_file, dry_run)
DoUpdateFailing(failures) ==
    \E dry_run \in BOOLEAN, failAt \in failures :
        /\ Returns(Update(zones, id, zone_file, dry_run, failAt))
        /\ UNCHANGED <<zone_file, hashOrder, nextId>>

\* r53zone.remove(dry_run)
DoRemoveFailing(failures) ==
    \E dry_run \in BOOLEAN, failAt \in failures :
        /\ Returns(Remove(zones, id, dry_run, failAt))
        /\ UNCHANGED <<zone_file, hashOrder, nextId>>

\* the calls to the provider that may fail in transit: none (0), or the failAt-th
Failures == 0..MaxFailAt

DoCreate == DoCreateFailing(Failures)

DoUpdate == DoUpdateFailing(Failures)

DoRemove == DoRemoveFailing(Failures)

\* str(r53zone)
DoShow ==
    /\ Returns(Repr(zones, id))
    /\ UNCHANGED <<zone_file, hashOrder, nextId>>

\* r53zone = Zone(conn, name)
NewZone ==
    /\ id' = None
    /\ calls' = <<>>
    /\ log' = <<>>
    /\ last' = Operation("new", FALSE, id, zones)
    /\ UNCHANGED <<zone_file, hashOrder, zones, nextId>>

Next == DoExists \/ DoCreate \/ DoUpdate \/ DoRemove \/ DoShow \/ NewZone

Spec == Init /\ [][Next]_vars

----------------------------------------------------------------------------
(* Large zones: enough rrsets for several listing calls and several        *)
(* requests of each kind.                                                  *)

\* the largest number of hosts of a large zone
MaxHosts == 201

\* h000.e., h001.e., ...
Host(i) == <<"h", Digit(i \div 100), Digit((i \div 10) % 10), Digit(i % 10), ".", "e", ".">>

\* the hosts lo..hi, each an A rrset of one value
HostRrsets(lo, hi, value) ==
    [i \in 1..(hi - lo + 1) |-> PlainRrset(Host(lo + i - 1), "A", 300, <<value>>)]

HostRdatas(lo, hi, value) ==
    [i \in 1..(hi - lo + 1) |-> Rdata(Host(lo + i - 1), 300, "A", value)]

\* a large zone at the provider and a large zone file: the number of hosts the
\* provider has (with the two generated rrsets: 99, 100, 101, 199 and 200 rrsets,
\* and more), the hosts of the zone file and their address
BulkCases ==
    {<<0, 1, MaxHosts, <<"1">>>>,
     <<MaxHosts, 1, 0, <<"1">>>>,
     <<101, 1, 101, <<"2">>>>,
     <<150, 52, MaxHosts + 51, <<"2">>>>,
     <<97, 1, 97, <<"1">>>>,
     <<98, 1, 98, <<"1">>>>,
     <<99, 1, 99, <<"1">>>>,
     <<197, 1, 197, <<"1">>>>,
     <<198, 1, 198, <<"1">>>>}

InitBulk ==
    /\ id = None
    /\ hashOrder \in {"insertion", "reversed"}
    /\ \E case \in BulkCases, there \in BOOLEAN :
           /\ there \/ case[1] = 0
           /\ zone_file = OriginRdatas \o HostRdatas(case[2], case[3], case[4])
           /\ zones = IF there
                      THEN <<HostedZone(1, FOREIGN, <<>>),
                             HostedZone(2, APEX, HostRrsets(1, case[1], <<"1">>))>>
                      ELSE <<HostedZone(1, FOREIGN, <<>>)>>
    /\ nextId = Len(zones)
    /\ calls = <<>>
    /\ log = <<>>
    /\ last = NoOperation

\* the operations on large zones, no call to the provider failing in transit
NextBulk ==
    \/ DoExists
    \/ DoCreateFailing({0})
    \/ DoUpdateFailing({0})
    \/ DoRemoveFailing({0})
    \/ DoShow
    \/ NewZone

SpecBulk == InitBulk /\ [][NextBulk]_vars

----------------------------------------------------------------------------
(* Zones of aliases: alias rrsets of several names and targets at the      *)
(* provider.                                                               *)

\* the names of the alias rrsets: the apex, a host, and a host whose own name
\* starts with "_alias."
AliasNames == {APEX, WWW, ALIAS_NAME_PREFIX \o WWW}

\* the hosted zone ids and the DNS names of alias targets, none holding a space
AliasZoneIds == {TARGET_ZONE, <<"Z", "1">>}
AliasDnsNames == {TARGET_NAME, WWW}

\* the alias rrsets a zone may hold
AliasRrsets ==
    {AliasRrset(name, zone_id, dns_name) :
        name \in AliasNames, zone_id \in AliasZoneIds, dns_name \in AliasDnsNames}

\* rrsets put in listing order
Listed(rrsets) ==
    SortSeq(rrsets, LAMBDA r, s : ListedBefore(r.name, r.type, s.name, s.type))

\* one alias rrset, or two of different names
AliasZones ==
    {<<r>> : r \in AliasRrsets}
    \cup {p \in AliasRrsets \X AliasRrsets : StrLess(p[1].name, p[2].name)}

InitAlias ==
    /\ id = None
    /\ hashOrder \in {"insertion", "reversed"}
    /\ zone_file \in {OriginRdatas, OriginRdatas \o <<AliasTxt(WWW, AliasListedTtl)>>}
    /\ \E rrsets \in AliasZones :
           zones = <<HostedZone(1, FOREIGN, <<>>),
                     [HostedZone(2, APEX, rrsets) EXCEPT !.rrsets = Listed(@)]>>
    /\ nextId = Len(zones)
    /\ calls = <<>>
    /\ log = <<>>
    /\ last = NoOperation

\* the operations on zones of aliases, no call to the provider failing in transit
NextAlias ==
    \/ DoExists
    \/ DoCreateFailing({0})
    \/ DoUpdateFailing({0})
    \/ DoRemoveFailing({0})
    \/ DoShow
    \/ NewZone

SpecAlias == InitAlias /\ [][NextAlias]_vars

----------------------------------------------------------------------------
(* Large zone files with aliases: a host that has an address and an alias  *)
(* under one name and ttl.                                                 *)

\* the hosts the provider holds (address 1), the hosts lo..hi of the zone file and
\* their address, and the hosts of the zone file that have an alias as well
MixedCases ==
    {<<50, 1, 50, <<"2">>, {1}>>,
     <<0, 1, 100, <<"1">>, {1}>>,
     <<0, 1, 100, <<"1">>, {}>>,
     <<0, 1, 99, <<"1">>, {1}>>,
     <<50, 1, 50, <<"2">>, {}>>}

\* the alias lines of the hosts lo..hi that are in aliased
AliasRdatas(lo, hi, aliased) ==
    SelectSeq([i \in 1..(hi - lo + 1) |-> AliasTxt(Host(lo + i - 1), 300)],
              LAMBDA line : \E h \in aliased : line.name = ALIAS_NAME_PREFIX \o Host(h))

InitMixed ==
    /\ id = None
    /\ hashOrder \in {"insertion", "reversed"}
    /\ \E case \in MixedCases, there \in BOOLEAN :
           /\ there \/ case[1] = 0
           /\ zone_file = OriginRdatas \o HostRdatas(case[2], case[3], case[4])
                               \o AliasRdatas(case[2], case[3], case[5])
           /\ zones = IF there
                      THEN <<HostedZone(1, FOREIGN, <<>>),
                             HostedZone(2, APEX, HostRrsets(1, case[1], <<"1">>))>>
                      ELSE <<HostedZone(1, FOREIGN, <<>>)>>
    /\ nextId = Len(zones)
    /\ calls = <<>>
    /\ log = <<>>
    /\ last = NoOperation

SpecMixed == InitMixed /\ [][NextBulk]_vars

----------------------------------------------------------------------------
(* Zone files with TXT records: aliases, one or two to a name, alone or    *)
(* next to addresses, and TXT records that are no alias or not quite one.  *)

\* a TXT record of ttl 600, as dnspython gives its text: in quotes
TxtLine(name, text) == Rdata(name, 600, "TXT", <<"\"">> \o text \o <<"\"">>)

ALIAS_TEXT == ALIAS_WORD \o TARGET_ZONE \o <<" ">> \o TARGET_NAME
OTHER_ALIAS_TEXT == ALIAS_WORD \o <<"Z", "1", " ">> \o WWW
SHORT_ALIAS_TEXT == ALIAS_WORD \o TARGET_ZONE
LONG_ALIAS_TEXT == ALIAS_TEXT \o <<" ", "x">>
PLAIN_TEXT == <<"x">>

TxtRdatas ==
    {<<>>,
     <<TxtLine(ALIAS_NAME_PREFIX \o WWW, ALIAS_TEXT)>>,
     <<TxtLine(ALIAS_NAME_PREFIX \o WWW, ALIAS_TEXT),
       TxtLine(ALIAS_NAME_PREFIX \o WWW, OTHER_ALIAS_TEXT)>>,
     <<TxtLine(ALIAS_NAME_PREFIX \o WWW, SHORT_ALIAS_TEXT)>>,
     <<TxtLine(ALIAS_NAME_PREFIX \o WWW, LONG_ALIAS_TEXT)>>,
     <<TxtLine(ALIAS_NAME_PREFIX \o WWW, PLAIN_TEXT)>>,
     <<TxtLine(SUB, ALIAS_TEXT)>>,
     <<TxtLine(SUB, PLAIN_TEXT)>>}

\* the rdatas of the origin, then addresses and TXT records, either first
TxtZoneFiles ==
    {OriginRdatas \o IF first THEN a \o txt ELSE txt \o a :
        a \in {<<>>,
               <<Rdata(WWW, 600, "A", <<"1">>)>>,
               <<Rdata(WWW, 600, "A", <<"1">>), Rdata(WWW, 600, "A", <<"2">>)>>},
        txt \in TxtRdatas,
        first \in BOOLEAN}

TxtProviders ==
    {<<HostedZone(1, FOREIGN, <<>>)>>}
    \cup {<<HostedZone(1, FOREIGN, <<>>), HostedZone(2, APEX, a)>> :
            a \in {<<>>,
                   <<PlainRrset(WWW, "A", 600, <<<<"1">>>>)>>,
                   <<AliasRrset(WWW, TARGET_ZONE, TARGET_NAME)>>}}

InitTxt ==
    /\ id = None
    /\ zone_file \in TxtZoneFiles
    /\ hashOrder \in {"insertion", "reversed"}
    /\ zones \in TxtProviders
    /\ nextId = Len(zones)
    /\ calls = <<>>
    /\ log = <<>>
    /\ last = NoOperation

SpecTxt == InitTxt /\ [][NextAlias]_vars

----------------------------------------------------------------------------
(* The update_host command on large zones.                                 *)

\* runs of update_host in one behaviour
MaxHostRuns == 2

\* the hosts a zone holds at the start: with the two generated rrsets, one page
\* of the listing exactly, a page and a half, and two pages exactly
HostCases == {98, 150, 198}

\* the hosts asked for: on the first page, the last of it, the first after it, on
\* later pages, and one no zone holds; each with and without its trailing dot
HostArgs ==
    {Host(i) : i \in {1, 98, 99, 150, 198, 199}}
    \cup {PyDropLast(Host(i)) : i \in {1, 98, 99, 150, 198, 199}}

\* the -a and -A options: (rtype, value)
HostValues == {<<"A", <<"9">>>>, <<"A", ALIAS_WORD \o TARGET_ZONE \o <<" ">> \o TARGET_NAME>>}

InitHost ==
    /\ id = None
    /\ hashOrder = "insertion"
    /\ zone_file = OriginRdatas
    /\ zones \in {<<HostedZone(1, FOREIGN, <<>>)>>}
                 \cup {<<HostedZone(1, FOREIGN, <<>>),
                         HostedZone(2, APEX, HostRrsets(1, n, <<"1">>))>> : n \in HostCases}
    /\ nextId = Len(zones)
    /\ calls = <<>>
    /\ log = <<>>
    /\ last = NoOperation

\* the runs of update_host so far
HostRuns == IF last.op = "update_host" THEN last.run ELSE 0

\* update_host <fqdn> <domain> -a <address>, or -A <alias>
DoUpdateHost ==
    \E host \in HostArgs, new \in HostValues :
        /\ HostRuns < MaxHostRuns
        /\ Returns(UpdateHostCommand(zones, host, new[1], DefaultTtl, new[2], HostRuns + 1))
        /\ UNCHANGED <<zone_file, hashOrder, nextId>>

NextHost == DoUpdateHost

SpecHost == InitHost /\ [][NextHost]_vars

----------------------------------------------------------------------------
(* The calls of a Zone in any order, those for single hosts included, on a *)
(* provider that holds the zone as its only hosted zone, or holds none.    *)

CallProviders ==
    {<<>>}
    \cup {<<HostedZone(1, APEX, a)>> :
            a \in {<<>>, <<PlainRrset(WWW, "A", 300, <<<<"1">>>>)>>}}

CallZoneFiles ==
    {OriginRdatas \o a :
        a \in {<<>>, <<Rdata(WWW, 300, "A", <<"1">>)>>, <<Rdata(WWW, 300, "A", <<"2">>)>>}}

\* the hosts of the calls for single hosts, one without its trailing dot
CallHosts == {WWW, PyDropLast(WWW), SUB}

InitCalls ==
    /\ id = None
    /\ zone_file \in CallZoneFiles
    /\ hashOrder = "insertion"
    /\ zones \in CallProviders
    /\ nextId = Len(zones)
    /\ calls = <<>>
    /\ log = <<>>
    /\ last = NoOperation

\* the record of a call for a single host
HostCall(op, host) ==
    [HostOperation(host, zones, 0) EXCEPT !.op = op, !.id_before = id]

\* r53zone.get_host(host)
DoGetHost ==
    \E host \in CallHosts :
        LET got == GetHost(zones, id, host, None, None, <<>>)
        IN /\ Returns([id |-> id, zones |-> zones, calls |-> got.calls, log |-> <<>>,
                       last |-> [HostCall("Zone.get_host", host) EXCEPT
                                    !.listed = ~got.raised,
                                    !.existing = got.existing,
                                    !.result = IF got.raised THEN "raised"
                                               ELSE "returned"]])
           /\ UNCHANGED <<zone_file, hashOrder, nextId>>

\* r53zone.create_host(fqdn, rtype, ttl, value)
DoCreateHost ==
    \E fqdn \in {WWW, SUB}, new \in HostValues :
        LET done == CreateHost(zones, id, fqdn, new[1], DefaultTtl, new[2])
        IN /\ Returns([id |-> id, zones |-> done.zones, calls |-> done.calls,
                       log |-> done.log,
                       last |-> [HostCall("Zone.create_host", fqdn) EXCEPT
                                    !.changesets = done.changesets,
                                    !.result = IF done.raised THEN "raised"
                                               ELSE "returned"]])
           /\ UNCHANGED <<zone_file, hashOrder, nextId>>

\* r53zone.update_host(fqdn, rtype, ttl, existing, value), existing being what
\* get_host returned for fqdn
DoUpdateHostOf ==
    \E fqdn \in CallHosts, new \in HostValues :
        LET got == GetHost(zones, id, fqdn, None, None, <<>>)
            done == UpdateHost(zones, id, fqdn, new[1], DefaultTtl, got.existing, new[2])
        IN /\ ~got.raised
           /\ got.existing # None
           /\ Returns([id |-> id, zones |-> done.zones, calls |-> got.calls \o done.calls,
                       log |-> done.log,
                       last |-> [HostCall("Zone.update_host", fqdn) EXCEPT
                                    !.listed = TRUE,
                                    !.existing = got.existing,
                                    !.changesets = done.changesets,
                                    !.result = IF done.raised THEN "raised"
                                               ELSE "returned"]])
           /\ UNCHANGED <<zone_file, hashOrder, nextId>>

\* the calls of a Zone, no call to the provider failing in transit
NextCalls ==
    \/ DoExists
    \/ DoCreateFailing({0})
    \/ DoUpdateFailing({0})
    \/ DoRemoveFailing({0})
    \/ DoShow
    \/ NewZone
    \/ DoGetHost
    \/ DoCreateHost
    \/ DoUpdateHostOf

SpecCalls == InitCalls /\ [][NextCalls]_vars

----------------------------------------------------------------------------
(* What the claims speak of.                                               *)

\* the calls that change the provider
MutatingCalls == {"create_hosted_zone", "change_rrsets", "delete_hosted_zone"}

\* the calls of the last operation that are of one kind
CallsOf(kind) == SelectSeq(calls, LAMBDA c : c.call = kind)

\* the keys of a dict
Keys(d) == Range(d.keys)

\* a dict as the mapping from its keys to the sorted list of each key's values
SortedValues(d) == [k \in Keys(d) |-> PySort(d.val[k])]

\* the hosted zones do not hold the zone
Absent(zs) == \A i \in 1..Len(zs) : zs[i].Name # APEX

\* the last operation was op, in normal mode, and came back without an error
Acted(op) ==
    last.op = op /\ ~last.dry_run /\ last.result \in {"returned", "no differences"}

----------------------------------------------------------------------------
(* C1 *)

\* C1: after an update() in normal mode whose requests were all accepted, the
\* record set extracted from the provider equals the record set extracted from the
\* zone file, key by key and value by value (the generated SOA and NS left out of
\* both by the extraction).
C1_Convergence ==
    Acted("update") =>
        LET live == ToDnszone(zones, id)
        IN /\ ~live.raised
           /\ SortedValues(GetRrecords(live.zone)) = SortedValues(GetRrecords(zone_file))

----------------------------------------------------------------------------
(* C2 *)

\* C2: in what _compare returns for the record sets current and desired, a key of
\* desired alone is in adds with desired's values and not in deletes, a key of
\* current alone is in deletes with current's values and not in adds, a key of both
\* whose sorted values differ is in updates with the two sorted lists, and no key
\* is in two of adds, deletes and updates.
C2_DiffCompleteness ==
    (last.op = "update" /\ last.listed) =>
        LET cur == last.current
            des == last.desired
            A == Keys(last.adds)
            D == Keys(last.deletes)
            U == Keys(last.updates)
        IN /\ \A k \in Keys(des) \ Keys(cur) :
                  k \in A /\ k \notin D /\ last.adds.val[k] = des.val[k]
           /\ \A k \in Keys(cur) \ Keys(des) :
                  k \in D /\ k \notin A /\ last.deletes.val[k] = cur.val[k]
           /\ \A k \in Keys(cur) \cap Keys(des) :
                  PySort(cur.val[k]) # PySort(des.val[k]) =>
                      /\ k \in U
                      /\ last.updates.val[k] = <<PySort(cur.val[k]), PySort(des.val[k])>>
           /\ A \cap D = {}
           /\ A \cap U = {}
           /\ D \cap U = {}

\* an update() that found keys to add, keys to delete and keys to update
C2_Witness ==
    /\ last.op = "update"
    /\ last.listed
    /\ Keys(last.adds) # {}
    /\ Keys(last.deletes) # {}
    /\ Keys(last.updates) # {}

----------------------------------------------------------------------------
(* C3 *)

\* deletes before updates before adds
GroupRank(group) == CASE group = "deletes" -> 1 [] group = "updates" -> 2 [] group = "adds" -> 3

\* the actions a request of a group may hold
GroupActions(group) ==
    CASE group = "deletes" -> {"DELETE"}
      [] group = "updates" -> {"DELETE", "CREATE"}
      [] group = "adds" -> {"CREATE"}

\* the names and types the changes of a request are about
ChangedIn(xml) == {<<xml.changes[i].Name, xml.changes[i].Type>> : i \in 1..Len(xml.changes)}

\* the names and types of the keys a request was built from
SlicedIn(xml) == {<<xml.slice[i][1], xml.slice[i][2]>> : i \in 1..Len(xml.slice)}

\* the keys _compare gave a classification
Classified(group) ==
    CASE group = "deletes" -> Keys(last.deletes)
      [] group = "updates" -> Keys(last.updates)
      [] group = "adds" -> Keys(last.adds)

\* C3: the requests an update() in normal mode submits are those of the deletes,
\* then those of the updates, then those of the adds, one call after the other, and
\* each request is built from keys of one classification alone: its changes are
\* about those keys, with the actions of that classification.
C3_SubmissionOrder ==
    (last.op = "update" /\ ~last.dry_run) =>
        LET sub == CallsOf("change_rrsets")
        IN /\ \A i \in 1..Len(sub) : sub[i].xml = last.changesets[i]
           /\ \A i \in 1..(Len(sub) - 1) :
                  GroupRank(sub[i].xml.group) <= GroupRank(sub[i + 1].xml.group)
           /\ \A i \in 1..Len(sub) :
                  LET xml == sub[i].xml
                  IN /\ Range(xml.slice) \subseteq Classified(xml.group)
                     /\ \A g \in {"deletes", "updates", "adds"} \ {xml.group} :
                            Range(xml.slice) \cap Classified(g) = {}
                     /\ ChangedIn(xml) = SlicedIn(xml)
                     /\ \A j \in 1..Len(xml.changes) :
                            xml.changes[j].Action \in GroupActions(xml.group)

\* an update() that submitted several requests of updates and of adds after one of
\* deletes
C3_Witness ==
    /\ Acted("update")
    /\ LET sub == CallsOf("change_rrsets")
       IN /\ Len(sub) >= 5
          /\ sub[1].xml.group = "deletes"
          /\ Cardinality({i \in 1..Len(sub) : sub[i].xml.group = "updates"}) >= 2
          /\ Cardinality({i \in 1..Len(sub) : sub[i].xml.group = "adds"}) >= 2

----------------------------------------------------------------------------
(* C4 *)

\* C4: create(), update() and remove() called with dry_run make no call of
\* create_hosted_zone, change_rrsets or delete_hosted_zone, and the provider's
\* zones and rrsets are afterwards what they were before the call.
C4_DryRunNoMutation ==
    (last.op \in {"create", "update", "remove"} /\ last.dry_run) =>
        /\ \A i \in 1..Len(calls) : calls[i].call \notin MutatingCalls
        /\ zones = last.zones_before

\* a dry run of remove() on a zone that holds rrsets of its own
C4_Witness ==
    /\ last.op = "remove"
    /\ last.dry_run
    /\ last.result = "returned"
    /\ \E i \in 1..Len(zones) :
           /\ zones[i].Name = APEX
           /\ \E j \in 1..Len(zones[i].rrsets) : zones[i].rrsets[j].name # APEX

----------------------------------------------------------------------------
(* C5 *)

\* the log of the last operation reports key under the message msg
Reported(msg, key) ==
    \E i \in 1..Len(log) :
        log[i].msg = msg /\ log[i].key = key /\ log[i].level \in {"WARN", "ERROR"}

\* the keys the last operation, a dry run, would have added in normal mode
WouldAdd ==
    CASE last.op = "create" -> Keys(GetRrecords(zone_file))
      [] last.op = "update" -> Keys(last.adds)
      [] OTHER -> {}

\* the keys the last operation, a dry run, would have deleted in normal mode
WouldDelete ==
    CASE last.op = "remove" -> Keys(GetRrecords(ToDnszone(zones, id).zone))
      [] last.op = "update" -> Keys(last.deletes)
      [] OTHER -> {}

\* the keys the last operation, a dry run, would have updated in normal mode
WouldUpdate == IF last.op = "update" THEN Keys(last.updates) ELSE {}

\* the last operation was a dry run that its precondition let through
DryRan(op) == last.op = op /\ last.dry_run /\ last.result = "returned"

\* C5 as claimed: a dry run of create(), update() or remove() logs every key the
\* call would have added, deleted or updated in normal mode, with its
\* classification.
C5_DryRunReportsAll ==
    (DryRan("create") \/ DryRan("update") \/ DryRan("remove")) =>
        /\ \A k \in WouldAdd : Reported("Adding", k)
        /\ \A k \in WouldDelete : Reported("Removing", k)
        /\ \A k \in WouldUpdate : Reported("Updating", k)

\* C5 as amended: a dry run of update() logs every key it would have added,
\* deleted or updated in normal mode, with its classification; a dry run of
\* create() or remove() logs the one message about the zone and names no key.
C5_DryRunUpdateReports ==
    /\ (last.op = "update" /\ last.dry_run /\ last.listed) =>
           /\ \A k \in WouldAdd : Reported("Adding", k)
           /\ \A k \in WouldDelete : Reported("Removing", k)
           /\ \A k \in WouldUpdate : Reported("Updating", k)
    /\ DryRan("create") => log = <<[level |-> "WARN", msg |-> "Creating zone",
                                    key |-> None, values |-> <<>>]>>
    /\ DryRan("remove") => log = <<[level |-> "WARN", msg |-> "Removing zone",
                                    key |-> None, values |-> <<>>]>>

\* a dry run of update() with keys to add, to delete and to update
C5_Witness ==
    /\ DryRan("update")
    /\ WouldAdd # {}
    /\ WouldDelete # {}
    /\ WouldUpdate # {}

----------------------------------------------------------------------------
(* C6 *)

\* the last operation called nothing that changes the provider, listed no rrsets
\* and left the identifier as it was
NoAction ==
    /\ \A i \in 1..Len(calls) : calls[i].call \notin MutatingCalls \cup {"get_all_rrsets"}
    /\ id = last.id_before

\* C6: create() on a Zone whose identifier is set, and update(), remove() and
\* str() when the provider does not hold the zone, call nothing that changes the
\* provider, list no rrsets and leave the identifier as it was.
C6_PreconditionNoOp ==
    /\ (last.op = "create" /\ last.id_before # None) => NoAction
    /\ (last.op \in {"update", "remove", "show"} /\ Absent(last.zones_before)) => NoAction

----------------------------------------------------------------------------
(* C7 *)

\* an SOA, or an NS of the apex
Excluded(name, rtype) == rtype = "SOA" \/ (rtype = "NS" /\ name = APEX)

\* C7: whichever of the provider's zone and the zone file holds an SOA or an NS of
\* the apex, no such key is among the adds, the deletes or the updates, and no
\* request built by update(), create() or remove() holds a change of one.
C7_Exclusion ==
    /\ \A k \in Keys(last.adds) \cup Keys(last.deletes) \cup Keys(last.updates) :
           ~Excluded(k[1], k[2])
    /\ \A i \in 1..Len(last.changesets) :
           \A j \in 1..Len(last.changesets[i].changes) :
               ~Excluded(last.changesets[i].changes[j].Name,
                         last.changesets[i].changes[j].Type)
    /\ \A i \in 1..Len(calls) :
           calls[i].call = "change_rrsets" =>
               \A j \in 1..Len(calls[i].xml.changes) :
                   ~Excluded(calls[i].xml.changes[j].Name, calls[i].xml.changes[j].Type)

\* update() built a request while the zone file held an SOA and an NS of the apex,
\* and so did the provider's zone
C7_Witness ==
    /\ last.op = "update"
    /\ last.changesets # <<>>
    /\ \E i \in 1..Len(zone_file) : zone_file[i].rtype = "SOA" /\ zone_file[i].name = APEX
    /\ \E i \in 1..Len(zone_file) : zone_file[i].rtype = "NS" /\ zone_file[i].name = APEX
    /\ \E z \in 1..Len(last.zones_before) :
           last.zones_before[z].Name = APEX /\
               \E j \in 1..Len(last.zones_before[z].rrsets) :
                   Excluded(last.zones_before[z].rrsets[j].name,
                            last.zones_before[z].rrsets[j].type)

----------------------------------------------------------------------------
(* C8 *)

\* the rrsets the provider held for the zone when the last operation listed them
Held == last.zones_before[ZoneIndex(last.zones_before, id)].rrsets

\* the rdatas _get_rrsets makes of an rrset
RdatasOf(r) ==
    IF IsAliasRrset(r)
    THEN {[name |-> ALIAS_NAME_PREFIX \o r.name, ttl |-> r.ttl, rtype |-> "TXT",
           text |-> <<"\"">> \o ALIAS_WORD \o r.alias_hosted_zone_id \o <<" ">>
                    \o r.alias_dns_name \o <<"\"">>]}
    ELSE {[name |-> r.name, ttl |-> r.ttl, rtype |-> r.type, text |-> r.resource_records[i]] :
             i \in 1..Len(r.resource_records)}

\* the rrset r is in what the last operation extracted, with all its values
Extracted(r) ==
    IF last.op = "show" THEN RdatasOf(r) \subseteq Range(last.output)
    ELSE IF IsAliasRrset(r)
    THEN /\ <<r.name, "A", r.ttl>> \in Keys(last.current)
         /\ last.current.val[<<r.name, "A", r.ttl>>] =
                <<ALIAS_WORD \o r.alias_hosted_zone_id \o <<" ">> \o r.alias_dns_name>>
    ELSE /\ <<r.name, r.type, r.ttl>> \in Keys(last.current)
         /\ Range(last.current.val[<<r.name, r.type, r.ttl>>]) = Range(r.resource_records)

\* C8: the provider returning at most 100 rrsets a call, the first listing call
\* starts at the beginning, each next one at the name and type of the last rrset the
\* call before returned, every call but the last returned 100 rrsets and the last
\* one fewer; and every rrset the provider held that is no SOA and no NS of the apex
\* is in the record set extracted, with its values, and nothing else is.
C8_PaginationComplete ==
    last.listed =>
        LET listing == CallsOf("get_all_rrsets")
            n == Len(listing)
        IN /\ n >= 1
           /\ listing[1].name = None
           /\ listing[1].type = None
           /\ \A i \in 1..(n - 1) :
                  /\ Len(listing[i].returned) = 100
                  /\ listing[i + 1].name = listing[i].returned[100].name
                  /\ listing[i + 1].type = listing[i].returned[100].type
           /\ Len(listing[n].returned) < 100
           /\ \A j \in 1..Len(Held) :
                  ~Excluded(Held[j].name, Held[j].type) => Extracted(Held[j])
           /\ last.op # "show" =>
                  Len(last.current.keys) =
                      Cardinality({j \in 1..Len(Held) : ~Excluded(Held[j].name, Held[j].type)})

\* a zone of exactly 200 rrsets was listed, in three calls
C8_Witness ==
    /\ last.listed
    /\ last.op \in {"update", "remove"}
    /\ Len(Held) = 200
    /\ Len(CallsOf("get_all_rrsets")) = 3
    /\ Len(last.current.keys) = 198

----------------------------------------------------------------------------
(* C9 *)

\* C9: every request built from the adds or from the deletes (those of create()
\* and of remove() too) is built from at most 100 keys, every request built from
\* the updates from at most 50, and the changes of a request are about the keys it
\* was built from.
C9_BatchSizeBound ==
    \A i \in 1..Len(last.changesets) :
        LET xml == last.changesets[i]
        IN /\ xml.group \in {"adds", "deletes"} => Len(xml.slice) <= 100
           /\ xml.group = "updates" => Len(xml.slice) <= 50
           /\ Cardinality(Range(xml.slice)) = Len(xml.slice)
           /\ ChangedIn(xml) = SlicedIn(xml)

\* an update() built a request of 100 adds, one of 50 updates and one of deletes
C9_Witness ==
    /\ last.op = "update"
    /\ \E i \in 1..Len(last.changesets) :
           last.changesets[i].group = "adds" /\ Len(last.changesets[i].slice) = 100
    /\ \E i \in 1..Len(last.changesets) :
           last.changesets[i].group = "updates" /\ Len(last.changesets[i].slice) = 50
    /\ \E i \in 1..Len(last.changesets) : last.changesets[i].group = "deletes"

----------------------------------------------------------------------------
(* C10 *)

\* a submission, or the deletion of the zone, that failed
Failed(c) == c.call \in {"change_rrsets", "delete_hosted_zone"} /\ ~c.ok

\* the provider as the last operation found it, the new hosted zone added if the
\* operation was a create() that got as far as creating it
Base ==
    IF last.op = "create" /\ CallsOf("create_hosted_zone") # <<>>
    THEN CreateHostedZone(last.zones_before, nextId - 1, zone_name)
    ELSE last.zones_before

\* the provider after the requests of the calls cs that it accepted
RECURSIVE AfterCalls(_, _)
AfterCalls(zs, cs) ==
    IF cs = <<>> THEN zs
    ELSE AfterCalls(IF Head(cs).call = "change_rrsets" /\ Head(cs).ok
                    THEN ChangeRrsets(zs, Head(cs).id, Head(cs).xml).zones
                    ELSE zs,
                    Tail(cs))

\* C10: when a submission of update(), create() or remove(), or the deletion of
\* the zone in remove(), fails, the call raises, the failed call is the last call
\* made (no later request, no deletion of the zone, no compensating request), the
\* requests submitted are the first ones built, in order, and the provider holds
\* what the requests before the failed one made of it.
C10_NoRollbackNoContinuation ==
    \A k \in 1..Len(calls) :
        (last.op \in {"update", "create", "remove"} /\ Failed(calls[k])) =>
            LET sub == CallsOf("change_rrsets")
            IN /\ k = Len(calls)
               /\ last.result = "raised"
               /\ \A i \in 1..Len(sub) : sub[i].xml = last.changesets[i]
               /\ zones = AfterCalls(Base, SubSeq(calls, 1, k - 1))

\* the second request failed after the first had changed the provider
C10_Witness ==
    /\ last.op \in {"update", "create", "remove"}
    /\ LET sub == CallsOf("change_rrsets")
       IN /\ Len(sub) = 2
          /\ sub[1].ok
          /\ ~sub[2].ok
          /\ Len(last.changesets) > 2
    /\ zones # Base

----------------------------------------------------------------------------
(* C11 *)

\* the requests among cs that were built from the key k
BuiltFrom(cs, k) == {i \in 1..Len(cs) : k \in Range(cs[i].slice)}

\* the request xml holds a change of the key k under the action
Changes(xml, action, k) ==
    \E j \in 1..Len(xml.changes) :
        /\ xml.changes[j].Action = action
        /\ xml.changes[j].Name = k[1]
        /\ xml.changes[j].Type = k[2]

\* C11: a remove() in normal mode on a zone the provider holds builds requests
\* that hold a DELETE, and nothing but DELETEs, for every key of the zone's record
\* set that is no SOA and no NS of the apex, each key in one request; it calls
\* delete_hosted_zone at most once, as its last call and after it has submitted
\* every request built, in order; it does call it when no request was refused;
\* and for a zone of SOA and apex NS alone it builds no request and calls
\* delete_hosted_zone.
C11_RemoveOrdering ==
    (last.op = "remove" /\ ~last.dry_run /\ last.listed) =>
        LET sub == CallsOf("change_rrsets")
            del == CallsOf("delete_hosted_zone")
            cs == last.changesets
        IN /\ \A j \in 1..Len(Held) :
                  ~Excluded(Held[j].name, Held[j].type) =>
                      \E k \in Keys(last.current) :
                          k[1] = Held[j].name /\ k[2] = Held[j].type
           /\ \A k \in Keys(last.current) :
                  /\ ~Excluded(k[1], k[2])
                  /\ Cardinality(BuiltFrom(cs, k)) = 1
                  /\ \A i \in BuiltFrom(cs, k) : Changes(cs[i], "DELETE", k)
           /\ \A i \in 1..Len(cs) :
                  /\ Range(cs[i].slice) \subseteq Keys(last.current)
                  /\ \A j \in 1..Len(cs[i].changes) : cs[i].changes[j].Action = "DELETE"
           /\ Len(del) <= 1
           /\ Len(sub) <= Len(cs)
           /\ \A i \in 1..Len(sub) : sub[i].xml = cs[i] /\ sub[i].id = id
           /\ Len(del) = 1 =>
                  /\ calls[Len(calls)].call = "delete_hosted_zone"
                  /\ calls[Len(calls)].id = id
                  /\ Len(sub) = Len(cs)
           /\ (\A i \in 1..Len(sub) : sub[i].ok) => Len(del) = 1
           /\ (\A j \in 1..Len(Held) : Excluded(Held[j].name, Held[j].type)) =>
                  cs = <<>> /\ sub = <<>> /\ Len(del) = 1

\* a remove() submitted two requests of deletes and then deleted the zone
C11_Witness ==
    /\ Acted("remove")
    /\ Len(CallsOf("change_rrsets")) = 2
    /\ Len(CallsOf("delete_hosted_zone")) = 1
    /\ Absent(zones)

----------------------------------------------------------------------------
(* C12 *)

\* C12: a create() in normal mode on a Zone with no identifier, for a zone the
\* provider does not hold, calls create_hosted_zone once, as its first call; sets
\* the identifier to that of the hosted zone the provider made; builds requests
\* that hold a CREATE, and nothing but CREATEs, for every key of the zone file's
\* record set (no SOA, no NS of the apex), each key in one request of at most 100
\* keys; submits them in order to the new identifier, all of them when none is
\* refused; and leaves the provider holding the zone under the identifier.
C12_CreateFlow ==
    (last.op = "create" /\ ~last.dry_run /\ last.id_before = None
     /\ Absent(last.zones_before)) =>
        LET sub == CallsOf("change_rrsets")
            cs == last.changesets
            desired == GetRrecords(zone_file)
        IN /\ Len(CallsOf("create_hosted_zone")) = 1
           /\ calls[1].call = "create_hosted_zone"
           /\ id = StripHostedZone(Base[Len(Base)].Id)
           /\ id # None
           /\ \A k \in Keys(desired) :
                  /\ ~Excluded(k[1], k[2])
                  /\ Cardinality(BuiltFrom(cs, k)) = 1
                  /\ \A i \in BuiltFrom(cs, k) : Changes(cs[i], "CREATE", k)
           /\ \A i \in 1..Len(zone_file) :
                  ~Excluded(zone_file[i].name, zone_file[i].rtype) =>
                      \E k \in Keys(desired) : zone_file[i].ttl = k[3]
           /\ \A i \in 1..Len(cs) :
                  /\ Range(cs[i].slice) \subseteq Keys(desired)
                  /\ Len(cs[i].slice) <= 100
                  /\ \A j \in 1..Len(cs[i].changes) : cs[i].changes[j].Action = "CREATE"
           /\ Len(sub) <= Len(cs)
           /\ \A i \in 1..Len(sub) : sub[i].xml = cs[i] /\ sub[i].id = id
           /\ (\A i \in 1..Len(sub) : sub[i].ok) => Len(sub) = Len(cs)
           /\ ZoneIndex(zones, id) # 0
           /\ zones[ZoneIndex(zones, id)].Name = APEX
           /\ Exists(zones, None).id = id

\* a create() made the zone and filled it with three requests
C12_Witness ==
    /\ Acted("create")
    /\ last.id_before = None
    /\ Absent(last.zones_before)
    /\ Len(CallsOf("change_rrsets")) = 3
    /\ ~Absent(zones)
    /\ Len(zones[ZoneIndex(zones, id)].rrsets) = MaxHosts + 2

----------------------------------------------------------------------------
(* C13 *)

\* the change _change_xml renders for the alias of a name under an action
AliasChange(action, name, zone_id, dns_name) ==
    [Action |-> action, Name |-> name, Type |-> "A",
     AliasTarget |-> [HostedZoneId |-> zone_id, DNSName |-> dns_name]]

\* C13: an alias rrset (name, hosted zone id, DNS name) that _get_rrsets writes as
\* the TXT record "_alias.<name>" with the value "Alias <id> <DNS name>" comes out
\* of _get_rrecords as a record of type A under the name itself, whose value
\* _change_xml renders as the one alias change of that name with the same hosted
\* zone id and the same DNS name; the requests of a remove() hold that change.
C13_AliasRoundTrip ==
    (last.op \in {"update", "remove"} /\ last.listed) =>
        \A j \in 1..Len(Held) :
            IsAliasRrset(Held[j]) =>
                LET r == Held[j]
                    k == <<r.name, "A", r.ttl>>
                    change == AliasChange("DELETE", r.name, r.alias_hosted_zone_id,
                                          r.alias_dns_name)
                IN /\ k \in Keys(last.current)
                   /\ last.current.val[k] =
                          <<ALIAS_WORD \o r.alias_hosted_zone_id \o <<" ">>
                            \o r.alias_dns_name>>
                   /\ DeleteChangeXml(k[1], k[2], k[3], last.current.val[k]).xml = <<change>>
                   /\ (last.op = "remove" /\ ~last.dry_run) =>
                          \E i \in 1..Len(last.changesets) :
                              \E c \in 1..Len(last.changesets[i].changes) :
                                  last.changesets[i].changes[c] = change

\* a remove() of a zone with the alias of a name that starts with "_alias." and
\* the alias of the apex, to targets of different zones
C13_Witness ==
    /\ Acted("remove")
    /\ Len(Held) = 4
    /\ \E j \in 1..Len(Held) :
           /\ IsAliasRrset(Held[j])
           /\ Held[j].name = ALIAS_NAME_PREFIX \o WWW
           /\ Held[j].alias_hosted_zone_id = <<"Z", "1">>
    /\ \E j \in 1..Len(Held) :
           /\ IsAliasRrset(Held[j])
           /\ Held[j].name = APEX
           /\ Held[j].alias_hosted_zone_id = TARGET_ZONE

----------------------------------------------------------------------------
(* C14 *)

\* _compare found nothing to add, to delete or to update
NoDifferences(c) == c.adds.keys = <<>> /\ c.deletes.keys = <<>> /\ c.updates.keys = <<>>

\* C14: _compare of two zones that give the same record set, the same keys with
\* the same values in whatever order, returns empty adds, empty deletes and empty
\* updates: so for the zone file compared with itself read backwards, and so in
\* every update() that finds the provider's record set equal to the zone file's.
C14_DiffIdempotence ==
    /\ NoDifferences(Compare(zone_file, zone_file))
    /\ NoDifferences(Compare(zone_file, Reverse(zone_file)))
    /\ NoDifferences(Compare(Reverse(zone_file), zone_file))
    /\ (last.op = "update" /\ last.listed
        /\ SortedValues(last.current) = SortedValues(last.desired)) =>
           /\ NoDifferences(last)
           /\ last.result = "no differences"

\* an update() compared two equal record sets that list the values of a key in
\* different orders
C14_Witness ==
    /\ last.op = "update"
    /\ last.listed
    /\ SortedValues(last.current) = SortedValues(last.desired)
    /\ \E k \in Keys(last.current) :
           /\ Len(last.current.val[k]) = 2
           /\ last.current.val[k] # last.desired.val[k]
    /\ NoDifferences(last)

----------------------------------------------------------------------------
(* C15 *)

\* C15: an update(), dry run or not, in which _compare returns no adds, no
\* deletes and no updates builds no request, makes no call that changes the
\* provider, leaves the provider as it was, and logs "No differences found" as
\* its last message in place of "Updating zone".
C15_EmptyChangesetSubmitsNothing ==
    (last.op = "update" /\ last.listed /\ NoDifferences(last)) =>
        /\ last.changesets = <<>>
        /\ \A i \in 1..Len(calls) : calls[i].call \notin MutatingCalls
        /\ zones = last.zones_before
        /\ last.result = "no differences"
        /\ log = <<Logged("WARN", "No differences found", None, <<>>)>>

\* an update() in normal mode found a zone of several records equal to the zone
\* file
C15_Witness ==
    /\ last.op = "update"
    /\ ~last.dry_run
    /\ last.listed
    /\ NoDifferences(last)
    /\ Cardinality(Keys(last.current)) >= 2
    /\ last.result = "no differences"

----------------------------------------------------------------------------
(* C16 *)

\* the zone holds an rrset of the host's name, given with or without its dot
HeldAt(zs, host) ==
    \E z \in 1..Len(zs) :
        /\ zs[z].Name = APEX
        /\ \E j \in 1..Len(zs[z].rrsets) : zs[z].rrsets[j].name = FullyQualified(host)

\* C16: get_host(host) returns a record exactly when the zone at the provider
\* holds an rrset whose name is the host's fully qualified name, the host given
\* with or without its trailing dot and the rrset on whichever page of the
\* listing; and so update_host calls create_host exactly when the zone holds no
\* such rrset and update_host otherwise.
C16_SingleHostLookup ==
    (last.op = "update_host" /\ last.listed) =>
        /\ last.existing # None <=> HeldAt(last.zones_before, last.host)
        /\ last.called = IF HeldAt(last.zones_before, last.host) THEN "update_host"
                         ELSE "create_host"

----------------------------------------------------------------------------
(* C17 *)

\* C17: every request _create_changeset and _create_xml build holds at most 100
\* Change entries, a key of type A with an alias among its values included.
C17_WireCeiling ==
    \A i \in 1..Len(last.changesets) : Len(last.changesets[i].changes) <= 100

----------------------------------------------------------------------------
(* C18 *)

\* a key of type A of d that holds an alias and another value
Mixes(d) ==
    \E j \in 1..Len(d.keys) :
        /\ d.keys[j][2] = "A"
        /\ \E v \in Range(d.val[d.keys[j]]) : PySlice(v, 0, 6) = ALIAS_WORD
        /\ Len(d.val[d.keys[j]]) > 1

\* C18: _create_changeset leaves the adds, the deletes and the updates it is given,
\* and every list of values in them, as they were: in every update() that compared
\* the zones, the three dicts after the requests are built (the requests update()
\* got) are the three dicts _compare returned.
C18_BatcherSideEffectFree ==
    (last.op = "update" /\ last.listed) =>
        LET cs == CreateChangeset(last.adds, last.deletes, last.updates) IN
        /\ cs.changesets = last.changesets
        /\ cs.adds = last.adds
        /\ cs.deletes = last.deletes
        /\ cs.updates = last.updates

----------------------------------------------------------------------------
(* C19 *)

AliasTagged(v) == PySlice(v, 0, 6) = ALIAS_WORD

\* the entries the values of one key are to give under an action: for a key of type
\* A one alias entry for each alias among the values, then, if values remain, one
\* entry that holds them all; for a key of another type one entry with the values
Entries(action, key, values) ==
    LET aliases == SelectSeq(values, AliasTagged)
        others == SelectSeq(values, LAMBDA v : ~AliasTagged(v))
        plain(vs) == <<[Action |-> action, Name |-> key[1], Type |-> key[2],
                        TTL |-> PyStr(key[3]), ResourceRecords |-> vs]>>
    IN IF key[2] # "A" THEN plain(values)
       ELSE [i \in 1..Len(aliases) |->
                [Action |-> action, Name |-> key[1], Type |-> "A",
                 AliasTarget |-> [HostedZoneId |-> PySplit(aliases[i])[2],
                                  DNSName |-> PySplit(aliases[i])[3]]]]
            \o IF others = <<>> THEN <<>> ELSE plain(others)

\* the entries of one key of a request of the deletes, the updates or the adds
EntriesOf(group, key) ==
    CASE group = "deletes" -> Entries("DELETE", key, last.deletes.val[key])
      [] group = "updates" -> Entries("DELETE", key, last.updates.val[key][1])
                              \o Entries("CREATE", key, last.updates.val[key][2])
      [] group = "adds" -> Entries("CREATE", key, last.adds.val[key])

\* C19: in every request update() or create() built, each key has given, under the
\* action of its group, one alias entry for each alias among its values and, if
\* other values remain, exactly one plain entry that holds them all, no value lost
\* and none rendered twice; a key of aliases alone has no plain entry and a key
\* without alias has one plain entry and nothing else.
C19_MixedAliasRendering ==
    last.op \in {"update", "create"} =>
        \A i \in 1..Len(last.changesets) :
            last.changesets[i].changes =
                ForEach(LAMBDA acc, key : acc \o EntriesOf(last.changesets[i].group, key),
                        <<>>, last.changesets[i].slice)

\* update() has sent a request for an addition of two aliases and an address under
\* one key
C19_Witness ==
    /\ last.op = "update"
    /\ \E k \in Keys(last.adds) :
           /\ Len(last.adds.val[k]) = 3
           /\ Len(SelectSeq(last.adds.val[k], AliasTagged)) = 2
    /\ Len(CallsOf("change_rrsets")) > 0

----------------------------------------------------------------------------
(* C20 *)

\* a TXT record whose text without its quotes is "Alias " and two more words
Decodable(rdata) ==
    /\ rdata.rtype = "TXT"
    /\ AliasTagged(StripQuotes(rdata.text))
    /\ Len(PySplit(PyFrom(StripQuotes(rdata.text), 6))) = 2

\* the last operation has read the zone file into records
ExtractedFile ==
    \/ last.op = "update" /\ last.listed
    \/ last.op = "create" /\ ~last.dry_run /\ last.result # "refused"

\* the last operation raised before it sent any request
BuildFailed == last.result = "raised" /\ Len(CallsOf("change_rrsets")) = 0

\* C20: of the TXT records of the zone file, those whose text without its quotes
\* is "Alias " and exactly two more words become a value of a key of type A, under
\* the name without its "_alias." prefix; every other TXT record stays a value of
\* a TXT key under its own name and with its text as it was, and the run does not
\* fail over it.
C20_AliasDecodeDomain ==
    ExtractedFile =>
        \A i \in 1..Len(zone_file) :
            zone_file[i].rtype = "TXT" =>
                LET rdata == zone_file[i]
                    name == IF PySlice(rdata.name, 0, 7) = ALIAS_NAME_PREFIX
                            THEN PyFrom(rdata.name, 7) ELSE rdata.name
                    alias == <<name, "A", rdata.ttl>>
                    txt == <<rdata.name, "TXT", rdata.ttl>>
                IN IF Decodable(rdata)
                   THEN /\ HasKey(last.desired, alias)
                        /\ StripQuotes(rdata.text) \in Range(last.desired.val[alias])
                   ELSE /\ HasKey(last.desired, txt)
                        /\ rdata.text \in Range(last.desired.val[txt])
                        /\ ~BuildFailed

----------------------------------------------------------------------------
(* C21 *)

\* C21: a create() in normal mode on a Zone whose identifier is not set, no
\* exists() having been called on it, for a zone the provider holds already, has no
\* second hosted zone created and submits no request.
C21_CreateOnlyFromAbsent ==
    (last.op = "create" /\ ~last.dry_run /\ last.id_before = None
        /\ ~Absent(last.zones_before)) =>
        /\ Len(CallsOf("create_hosted_zone")) = 0
        /\ Len(CallsOf("change_rrsets")) = 0
        /\ Cardinality({i \in 1..Len(zones) : zones[i].Name = APEX}) = 1

----------------------------------------------------------------------------
(* C22 *)

\* the requests built from one classification, in order
RequestsOf(group) == SelectSeq(last.changesets, LAMBDA xml : xml.group = group)

\* the actions of the changes of a request that are about the key k, in order
ActionsOf(xml, k) ==
    LET about == SelectSeq(xml.changes,
                           LAMBDA c : /\ c.Name = k[1]
                                      /\ c.Type = k[2]
                                      /\ IsAliasChange(c) \/ c.TTL = PyStr(k[3]))
    IN [j \in 1..Len(about) |-> about[j].Action]

\* actions is some DELETEs, some CREATEs, or some DELETEs and then some CREATEs,
\* as the classification has it
ActionsAsClassified(group, actions) ==
    LET deleted == {j \in 1..Len(actions) : actions[j] = "DELETE"}
        created == {j \in 1..Len(actions) : actions[j] = "CREATE"}
    IN /\ deleted \cup created = 1..Len(actions)
       /\ (deleted # {}) <=> (group \in {"deletes", "updates"})
       /\ (created # {}) <=> (group \in {"adds", "updates"})
       /\ \A d \in deleted, c \in created : d < c

\* the classification of n keys gave ceil(n / cap) requests, each of cap keys but
\* the last, and each of its keys is in one request alone, with its actions
Partitioned(group, cap) ==
    LET n == Cardinality(Classified(group))
        requests == RequestsOf(group)
    IN /\ Len(requests) = (n + cap - 1) \div cap
       /\ \A i \in 1..Len(requests) :
              Len(requests[i].slice) = IF i < Len(requests) THEN cap
                                       ELSE n - cap * (Len(requests) - 1)
       /\ \A k \in Classified(group) :
              /\ Cardinality(BuiltFrom(last.changesets, k)) = 1
              /\ \A i \in BuiltFrom(last.changesets, k) :
                     /\ last.changesets[i].group = group
                     /\ ActionsAsClassified(group, ActionsOf(last.changesets[i], k))

\* C22: whenever update() or create() has built its requests, n adds have given
\* ceil(n / 100) requests, n deletes ceil(n / 100) and n updates ceil(n / 50), all
\* but the last of a classification of 100 (50) keys, and every key of the adds,
\* the deletes and the updates is rendered in exactly one request, under CREATE for
\* an add, DELETE for a delete, DELETE then CREATE for an update.
C22_BatchPartition ==
    (ExtractedFile /\ ~BuildFailed) =>
        /\ Partitioned("adds", 100)
        /\ Partitioned("deletes", 100)
        /\ Partitioned("updates", 50)
        /\ Len(last.changesets)
             = Len(RequestsOf("adds")) + Len(RequestsOf("deletes")) + Len(RequestsOf("updates"))

\* an update() has built one request of deletes, two of updates and two of adds,
\* and the provider has taken them all
C22_Witness ==
    /\ Acted("update")
    /\ Len(RequestsOf("deletes")) = 1
    /\ Len(RequestsOf("updates")) = 2
    /\ Len(RequestsOf("adds")) = 2
    /\ Len(CallsOf("change_rrsets")) = 5

----------------------------------------------------------------------------
(* C23 *)

====
